---- MODULE Spec2Model ----
(***************************************************************************)
(* Model of the question store (src/db_operations.py, class OCRDatabase)   *)
(* and of the OCR attempt selection of BatchProcessor.perform_ocr          *)
(* (src/00_LMStudio_batch_processor.py).                                   *)
(*                                                                         *)
(* Strings are sequences of one-character strings, so that lower(),        *)
(* split(), strip() and os.path.basename() are computed, not assumed.      *)
(* sha256 is modelled as an injective function: the digest of a string is  *)
(* the string itself.  A nullable TEXT column holds <<>> for NULL and      *)
(* <<s>> for the string s.                                                 *)
(***************************************************************************)
EXTENDS Integers, Sequences, FiniteSets, TLC

VARIABLES
    questions,      \* table questions: records [id, question_text, question_hash, llm_*]
    options,        \* table options: records [question_id, option_letter, option_text]
    source_files,   \* table source_files: records [question_id, filename, filename_hash]
    seq,            \* sqlite_sequence of questions (AUTOINCREMENT): largest id ever allocated
    clock,          \* CURRENT_TIMESTAMP: the seconds gone by since the store was created
    lastCall,       \* the last call made on the store: its return value and locals,
                    \* and the arguments of a call that returned True
    ocr_in,         \* perform_ocr: enhancement, is_dark_screenshot and psm of the call
    pc,             \* perform_ocr: "variants", "alt_psm", "direct" or "done"
    idx,            \* perform_ocr: position in the loop that pc names
    best_text,      \* perform_ocr: local best_text
    best_confidence,\* perform_ocr: local best_confidence, a rational <<num, den>>
    best_settings,  \* perform_ocr: local best_settings, the label of the retained attempt
    any_text,       \* history: some attempt of the two loops produced non-empty text
    scored,         \* history: per confidence value, the earliest text-producing attempt
    alt_preproc,    \* history: the variant the last alternative PSM attempt ran on
    attempted,      \* history: the variants whose OCR attempt was started
    ocr_return,     \* perform_ocr: which return statement ended the call, "" before
    image_shape,    \* preprocess_image: <<height, width>> of the image passed in
    result_shape,   \* preprocess_image: <<height, width>> of the image returned
    pp_pc,          \* preprocess_image: "idle", "ready", or which function returned
    fq_in,          \* format_question_options: the text passed in, and the question
                    \* and options it was built from when it has the clean form
    fq_out,         \* format_question_options: question, options and string returned
    fq_pc,          \* format_question_options: "idle", "ready" or "done"
    listdir,        \* list_image_files: os.listdir(folder_path), in the order the OS gives
    file_listbox,   \* the entries of the file list box, top to bottom
    ls_pc,          \* list_image_files: "idle", "ready" or "done"
    processing_queue, \* queue.Queue of the file paths still to be processed
    results_queue,  \* queue.Queue of events; only "complete", the one event that
                    \* check_progress acts upon, is kept, with the count it reports
    ocr_results,    \* dict file path -> OCR text, "" when absent
    ocr_tasks,      \* tasks submitted to an OCR pool and not yet finished: [run, file]
    stop_processing,\* the stop flag
    process_button, \* the Start button is enabled
    stop_button,    \* the Stop button is enabled
    checking,       \* a call of check_progress is scheduled
    threads,        \* the processing threads ever started, one record of locals each
    run_config,     \* use_ocr_var, vision_var and max_retries of the current run
    enqueued,       \* history: the files start_processing put on the queue, in order
    taken,          \* history: the files the worker took from the queue, in order
    ocr_done,       \* history: the files whose OCR task of this run finished, in order
    requests,       \* history: per file, the LLM requests issued in this run
    outcome,        \* history: per file, "none", or the prompt used and how it ended
    processed_files,\* start_ocr_processing: the files the last run passed to the OCR
    skipped_files,  \* start_ocr_processing: the files the last run skipped
    stored_as,      \* history: per file, the id of the question a run stored it
                    \* under, 0 when none or when undone since
    raw_lines,      \* parse_ocr_text: the non-empty stripped lines of raw_text
    parsed,         \* parse_ocr_text: question_text, question_index and
                    \* options_start_index after the question was located
    pq_pc           \* parse_ocr_text: "idle", "ready" or "done"

storeVars == <<questions, options, source_files, seq, clock, lastCall>>
ocrVars == <<ocr_in, pc, idx, best_text, best_confidence, best_settings,
             any_text, scored, alt_preproc, attempted, ocr_return>>
ppVars == <<image_shape, result_shape, pp_pc>>
fqVars == <<fq_in, fq_out, fq_pc>>
lsVars == <<listdir, file_listbox, ls_pc>>
bpVars == <<processing_queue, results_queue, ocr_results, ocr_tasks, stop_processing,
            process_button, stop_button, checking, threads, run_config,
            enqueued, taken, ocr_done, requests, outcome>>
incVars == <<processed_files, skipped_files, stored_as>>
pqVars == <<raw_lines, parsed, pq_pc>>
vars == <<questions, options, source_files, seq, clock, lastCall,
          ocr_in, pc, idx, best_text, best_confidence, best_settings,
          any_text, scored, alt_preproc, attempted, ocr_return,
          image_shape, result_shape, pp_pc,
          fq_in, fq_out, fq_pc,
          listdir, file_listbox, ls_pc,
          processing_queue, results_queue, ocr_results, ocr_tasks, stop_processing,
          process_button, stop_button, checking, threads, run_config,
          enqueued, taken, ocr_done, requests, outcome,
          processed_files, skipped_files, stored_as,
          raw_lines, parsed, pq_pc>>

-----------------------------------------------------------------------------
(* Bounds *)

MaxId == 3          \* ids the questions table may allocate
MaxFiles == 2       \* files in the folder that list_image_files reads
MaxRuns == 2        \* times the Start button is pressed
MaxRetriesSetting == 1  \* largest max_retries the user configures
MaxExtraRequests == 1   \* requests for one file followed beyond max_retries + 1

-----------------------------------------------------------------------------
(* Strings *)

IsSpace(c) == c \in {" ", "\t", "\n"}

Max2(a, b) == IF a >= b THEN a ELSE b

LowerChar(c) == IF c = "A" THEN "a" ELSE IF c = "B" THEN "b" ELSE c

Lower(s) == [i \in 1..Len(s) |-> LowerChar(s[i])]

\* str.split(): the maximal runs of non-whitespace characters, in order
RECURSIVE SplitFrom(_, _, _)
SplitFrom(s, i, word) ==
    IF i > Len(s)
    THEN IF word = <<>> THEN <<>> ELSE <<word>>
    ELSE IF IsSpace(s[i])
         THEN IF word = <<>> THEN SplitFrom(s, i + 1, <<>>)
                             ELSE <<word>> \o SplitFrom(s, i + 1, <<>>)
         ELSE SplitFrom(s, i + 1, Append(word, s[i]))

Split(s) == SplitFrom(s, 1, <<>>)

\* " ".join(words)
RECURSIVE JoinSpace(_)
JoinSpace(words) ==
    IF words = <<>> THEN <<>>
    ELSE IF Len(words) = 1 THEN words[1]
    ELSE words[1] \o <<" ">> \o JoinSpace(Tail(words))

\* str.strip()
RECURSIVE LStrip(_)
LStrip(s) == IF s # <<>> /\ IsSpace(Head(s)) THEN LStrip(Tail(s)) ELSE s

RECURSIVE RStrip(_)
RStrip(s) ==
    IF s # <<>> /\ IsSpace(s[Len(s)]) THEN RStrip(SubSeq(s, 1, Len(s) - 1)) ELSE s

Strip(s) == RStrip(LStrip(s))

\* os.path.basename(): what follows the last "/"
RECURSIVE basename(_)
basename(p) ==
    IF \E i \in 1..Len(p) : p[i] = "/"
    THEN basename(Tail(p))
    ELSE p

compute_question_hash(question_text) == JoinSpace(Split(Lower(question_text)))

\* variant: the digest is taken of the path as given
filename_hash_of_path(filename) == filename

compute_filename_hash(filename) == basename(filename)

\* chr(65 + i) for the i-th option, i counted from 1 here
Alphabet == <<"A", "B", "C", "D", "E", "F">>
option_letter(i) == Alphabet[i]

-----------------------------------------------------------------------------
(* Inputs *)

QuestionTexts == { <<"a", " ", "B">>, <<" ", "A", "\t", " ", "b">>, <<"b">> }

\* two texts with different hashes, for the specifications about edits and
\* LLM results
TwoTexts == { <<" ", "A", "\t", " ", "b">>, <<"b">> }

FileNames == { <<"x">>, <<"d", "/", "x">>, <<"y">> }

\* option lists of a parse: a shorter one, and a longer one with another text for A
OptionLists == { <<"p">>, <<"q", "p">> }

NULL == <<>>
Text(s) == <<s>>
LlmValues == { NULL, Text(<<>>), Text(<<" ", "\t">>), Text(<<" ", "x">>) }

\* (answer, justification, explanations): all three non-blank, or exactly one
\* of them NULL, empty or whitespace-only, or all three NULL
Good == Text(<<" ", "x">>)
LlmTriples ==
    { <<Good, Good, Good>>, <<NULL, NULL, NULL>> }
        \cup { <<v, Good, Good>> : v \in LlmValues }
        \cup { <<Good, v, Good>> : v \in LlmValues }
        \cup { <<Good, Good, v>> : v \in LlmValues }

Ids == 1..MaxId

-----------------------------------------------------------------------------
(* The store: statements and queries of OCRDatabase *)

\* the database as one value, so that a transaction can be rolled back
DB == [questions |-> questions, options |-> options,
       source_files |-> source_files, seq |-> seq]

ExistingWithHash(d, h) == { q \in d.questions : q.question_hash = h }

\* INSERT INTO questions .. ON CONFLICT(question_hash) DO UPDATE .. RETURNING id
\* The AUTOINCREMENT sequence advances on a conflicting upsert as well.
upsert_id(d, h) ==
    IF ExistingWithHash(d, h) # {}
    THEN (CHOOSE q \in ExistingWithHash(d, h) : TRUE).id
    ELSE d.seq + 1

\* the row that INSERT INTO questions (question_text, question_hash) creates
new_question(id, question_text, h) ==
    [id |-> id,
     question_text |-> question_text,
     question_hash |-> h,
     first_seen_date |-> clock,
     last_seen_date |-> clock,
     llm_answer |-> NULL,
     llm_justification |-> NULL,
     llm_explanations |-> NULL,
     references |-> NULL]

\* variant: INSERT OR REPLACE INTO questions, the row of the hash is replaced
upsert_replaces_row(d, question_text, h) ==
    [d EXCEPT !.seq = d.seq + 1,
              !.questions = (d.questions \ ExistingWithHash(d, h)) \cup
                  { new_question(upsert_id(d, h), question_text, h) }]

upsert_question(d, question_text, h) ==
    IF ExistingWithHash(d, h) # {}
    THEN [d EXCEPT !.seq = d.seq + 1,
                   !.questions =
                       { IF q.question_hash = h
                         THEN [q EXCEPT !.last_seen_date = clock]
                         ELSE q : q \in d.questions }]
    ELSE [d EXCEPT !.seq = d.seq + 1,
                   !.questions = d.questions \cup
                       { new_question(d.seq + 1, question_text, h) }]

\* INSERT OR REPLACE INTO options, under UNIQUE(question_id, option_letter);
\* also the UPDATE-else-INSERT pair of update_question_and_options
write_option(d, question_id, letter, option_text) ==
    [d EXCEPT !.options =
        { o \in d.options :
            ~(o.question_id = question_id /\ o.option_letter = letter) }
        \cup { [question_id |-> question_id, option_letter |-> letter,
                option_text |-> option_text] }]

RECURSIVE write_options(_, _, _, _)
write_options(d, question_id, opts, n) ==
    IF n = 0 THEN d
    ELSE write_option(write_options(d, question_id, opts, n - 1),
                      question_id, option_letter(n), opts[n])

\* UNIQUE(question_id, filename) and UNIQUE(filename_hash) of source_files
SourceConflict(d, question_id, filename, filename_hash) ==
    \E sf \in d.source_files :
        \/ sf.question_id = question_id /\ sf.filename = filename
        \/ sf.filename_hash = filename_hash

\* INSERT OR IGNORE INTO source_files
insert_or_ignore_source(d, question_id, filename, filename_hash) ==
    IF SourceConflict(d, question_id, filename, filename_hash)
    THEN d
    ELSE [d EXCEPT !.source_files = d.source_files \cup
            { [question_id |-> question_id, filename |-> filename,
               filename_hash |-> filename_hash] }]

\* the database after the first k statements of store_question: statement 1 is
\* the question upsert, 2 .. Len(opts)+1 the option writes, Len(opts)+2 the
\* source-file insert
StoreStatements(d, question_text, opts, source_file, k) ==
    LET h == compute_question_hash(question_text)
        question_id == upsert_id(d, h)
        d1 == upsert_question(d, question_text, h)
        nopts == IF k - 1 < Len(opts) THEN k - 1 ELSE Len(opts)
        d2 == write_options(d1, question_id, opts, nopts)
        d3 == insert_or_ignore_source(d2, question_id, source_file,
                                      compute_filename_hash(source_file))
    IN  IF k = 0 THEN d
        ELSE IF k <= Len(opts) + 1 THEN d2
        ELSE d3

\* (StoreCommitsPartial is the variant that commits what was written before
\* the failing statement.)
\* store_question as a transaction: failAt = 0 when no statement raises,
\* otherwise the number of the statement that raises sqlite3.Error; the
\* connection context manager commits on return and rolls back on an exception
StoreCommitsPartial(d, question_text, opts, source_file, failAt) ==
    IF failAt = 0
    THEN [db |-> StoreStatements(d, question_text, opts, source_file,
                                 Len(opts) + 2), ret |-> TRUE]
    ELSE [db |-> StoreStatements(d, question_text, opts, source_file,
                                 failAt - 1), ret |-> FALSE]

store_question_txn(d, question_text, opts, source_file, failAt) ==
    IF failAt = 0
    THEN [db |-> StoreStatements(d, question_text, opts, source_file,
                                 Len(opts) + 2), ret |-> TRUE]
    ELSE [db |-> d, ret |-> FALSE]

\* DELETE FROM source_files WHERE filename_hash = ?
mark_file_unprocessed_db(d, filename) ==
    [d EXCEPT !.source_files =
        { sf \in d.source_files :
            sf.filename_hash # compute_filename_hash(filename) }]

RECURSIVE mark_all_unprocessed(_, _)
mark_all_unprocessed(d, filenames) ==
    IF filenames = {} THEN d
    ELSE LET f == CHOOSE x \in filenames : TRUE
         IN  mark_all_unprocessed(mark_file_unprocessed_db(d, f), filenames \ {f})

\* SELECT filename FROM source_files WHERE question_id = ?
filenames_of(d, question_id) ==
    { sf.filename : sf \in { r \in d.source_files : r.question_id = question_id } }

\* variant: the deletes are never committed
delete_not_committed(d, question_id) == d

\* variant: the option rows are left behind
delete_keeps_options(d, question_id) ==
    [d EXCEPT
       !.source_files = { sf \in d.source_files : sf.question_id # question_id },
       !.questions = { q \in d.questions : q.id # question_id }]

\* delete_question: the three DELETEs, the commit, then mark_file_unprocessed
\* for every filename read before the delete
delete_question_db(d, question_id) ==
    LET filenames == filenames_of(d, question_id)
        d1 == [d EXCEPT
                 !.options = { o \in d.options : o.question_id # question_id },
                 !.source_files =
                     { sf \in d.source_files : sf.question_id # question_id },
                 !.questions = { q \in d.questions : q.id # question_id }]
    IN  mark_all_unprocessed(d1, filenames)

\* update_question_and_options: UPDATE questions (no row when the id is
\* unknown), then one UPDATE-else-INSERT per option
update_question_and_options_db(d, question_id, new_question_text, new_options) ==
    LET d1 == [d EXCEPT !.questions =
                 { IF q.id = question_id
                   THEN [q EXCEPT !.question_text = new_question_text,
                                  !.last_seen_date = clock]
                   ELSE q : q \in d.questions }]
    IN  write_options(d1, question_id, new_options, Len(new_options))

\* references = [{}, {}, {}]: the nine src columns are set to ''
NoReferences == Text(<<>>)

\* update_llm_results: UPDATE questions SET llm_*, src*, last_seen_date
\* WHERE id = ?, called without references
update_llm_results_db(d, question_id, answer, justification, explanations) ==
    [d EXCEPT !.questions =
        { IF q.id = question_id
          THEN [q EXCEPT !.llm_answer = answer,
                         !.llm_justification = justification,
                         !.llm_explanations = explanations,
                         !.references = NoReferences,
                         !.last_seen_date = clock]
          ELSE q : q \in d.questions }]

\* Queries, on the current tables

\* variant: compares without strip()
NonBlankNoStrip(v) == v # NULL /\ v[1] # <<>>

\* v is not None and str(v).strip() != ""
NonBlank(v) == v # NULL /\ Strip(v[1]) # <<>>

has_llm_results(question_id) ==
    LET rows == { q \in questions : q.id = question_id }
    IN  IF rows = {} THEN FALSE
        ELSE LET row == CHOOSE q \in rows : TRUE
             IN  /\ NonBlank(row.llm_answer)
                 /\ NonBlank(row.llm_justification)
                 /\ NonBlank(row.llm_explanations)

\* SELECT * FROM questions WHERE llm_answer IS NULL OR llm_justification IS NULL
\* OR llm_explanations IS NULL
get_questions_missing_llm_results ==
    { q \in questions :
        \/ q.llm_answer = NULL
        \/ q.llm_justification = NULL
        \/ q.llm_explanations = NULL }

\* SELECT COUNT(*) FROM source_files sf JOIN questions q ON sf.question_id = q.id
\* WHERE sf.filename_hash = ?   ...   count > 0
is_file_processed(filename) ==
    LET filename_hash == compute_filename_hash(filename)
        joined == { <<sf, q>> \in source_files \X questions :
                      sf.question_id = q.id /\ sf.filename_hash = filename_hash }
    IN  Cardinality(joined) > 0

get_files_for_question(question_id) ==
    { sf.filename : sf \in { r \in source_files : r.question_id = question_id } }

\* rows of options for the question, ORDER BY option_letter
RECURSIVE OptionsFrom(_, _, _)
OptionsFrom(tbl, question_id, i) ==
    IF i > Len(Alphabet) THEN <<>>
    ELSE LET rows == { o \in tbl : o.question_id = question_id
                                    /\ o.option_letter = Alphabet[i] }
         IN  (IF rows = {} THEN <<>>
              ELSE << [letter |-> Alphabet[i],
                       text |-> (CHOOSE o \in rows : TRUE).option_text] >>)
             \o OptionsFrom(tbl, question_id, i + 1)

get_options_for_question(question_id) == OptionsFrom(options, question_id, 1)

-----------------------------------------------------------------------------
(* The store: one action per method of OCRDatabase *)

NoCall == [op |-> "none", id |-> 0, text |-> <<>>, opts |-> <<>>,
           file |-> <<>>, ret |-> FALSE, failAt |-> 0, filenames |-> {}]

SetDB(d) ==
    /\ questions' = d.questions
    /\ options' = d.options
    /\ source_files' = d.source_files
    /\ seq' = d.seq
    /\ clock' = clock

StoreInit ==
    /\ questions = {}
    /\ options = {}
    /\ source_files = {}
    /\ seq = 0
    /\ clock = 0
    /\ lastCall = NoCall

store_question(question_text, opts, source_file, failAt) ==
    /\ seq < MaxId
    /\ LET r == store_question_txn(DB, question_text, opts, source_file, failAt)
       IN  /\ SetDB(r.db)
           /\ lastCall' = [NoCall EXCEPT
                  !.op = "store_question",
                  !.id = IF r.ret
                         THEN upsert_id(DB, compute_question_hash(question_text))
                         ELSE 0,
                  !.text = IF r.ret THEN question_text ELSE <<>>,
                  !.opts = IF r.ret THEN opts ELSE <<>>,
                  !.file = IF r.ret THEN source_file ELSE <<>>,
                  !.ret = r.ret, !.failAt = failAt]

\* failed: a statement before the commit raises sqlite3.Error
delete_question(question_id, failed) ==
    /\ SetDB(IF failed THEN DB ELSE delete_question_db(DB, question_id))
    /\ lastCall' = [NoCall EXCEPT
           !.op = "delete_question", !.id = question_id,
           !.ret = ~failed,
           !.filenames = IF failed THEN {} ELSE filenames_of(DB, question_id)]

mark_file_unprocessed(filename) ==
    /\ SetDB(mark_file_unprocessed_db(DB, filename))
    /\ lastCall' = [NoCall EXCEPT
           !.op = "mark_file_unprocessed", !.file = filename, !.ret = TRUE]

update_question_and_options(question_id, new_question_text, new_options) ==
    /\ SetDB(update_question_and_options_db(DB, question_id,
                                            new_question_text, new_options))
    /\ lastCall' = [NoCall EXCEPT
           !.op = "update_question_and_options", !.id = question_id,
           !.text = new_question_text, !.opts = new_options, !.ret = TRUE]

update_llm_results(question_id, answer, justification, explanations) ==
    /\ SetDB(update_llm_results_db(DB, question_id, answer,
                                   justification, explanations))
    /\ lastCall' = [NoCall EXCEPT
           !.op = "update_llm_results", !.id = question_id,
           !.ret = (\E q \in questions : q.id = question_id)]

\* OCRApp.delete_llm_info for one selected question: the three results are
\* overwritten with empty strings
delete_llm_info(question_id) ==
    update_llm_results(question_id, Text(<<>>), Text(<<>>), Text(<<>>))

-----------------------------------------------------------------------------
(* perform_ocr: the OCR engine and the selection of the best attempt *)

\* what pytesseract.image_to_string can return; ok = FALSE when it raises
EngineTexts == { <<>>, <<"t">> }
StringOutcomes ==
    { [ok |-> TRUE, text |-> t] : t \in EngineTexts }
        \cup { [ok |-> FALSE, text |-> <<>>] }

\* data['conf'] of pytesseract.image_to_data; ok = FALSE when it raises
ConfLists == { << -1 >>, << -1, 40, 60 >>, << 90 >> }
DataOutcomes ==
    { [ok |-> TRUE, conf |-> c] : c \in ConfLists }
        \cup { [ok |-> FALSE, conf |-> <<>>] }

\* rationals <<numerator, denominator>>, denominator > 0
RatGt(a, b) == a[1] * b[2] > b[1] * a[2]
RatEq(a, b) == a[1] * b[2] = b[1] * a[2]

RECURSIVE SumSeq(_)
SumSeq(xs) == IF xs = <<>> THEN 0 ELSE Head(xs) + SumSeq(Tail(xs))

\* confidences = [conf for conf in data['conf'] if conf != -1]
\* avg_confidence = sum(confidences) / len(confidences) if confidences else 0
avg_confidence(confs) ==
    LET confidences == SelectSeq(confs, LAMBDA c : c # -1)
    IN  IF confidences # <<>>
        THEN <<SumSeq(confidences), Len(confidences)>>
        ELSE <<0, 1>>

\* avg_confidence = 50 if text else 0
default_confidence(text) == IF text # <<>> THEN <<50, 1>> ELSE <<0, 1>>

\* text1 if len(text1) > len(text2) else text2
longer_text(text1, text2) == IF Len(text1) > Len(text2) THEN text1 ELSE text2

Raised == [raised |-> TRUE, text |-> <<>>, conf |-> <<0, 1>>]
Attempt(text, conf) == [raised |-> FALSE, text |-> text, conf |-> conf]

\* one iteration of the variant loop: s1, s2 are the outcomes of the first and
\* second image_to_string call of the iteration, data that of image_to_data
variant_attempt(preproc_name, s1, s2, data) ==
    IF preproc_name \in {"Dark Mode", "Inverted"}
    THEN IF ~s1.ok \/ ~s2.ok THEN Raised
         ELSE LET text == longer_text(s1.text, s2.text)
              IN  Attempt(text, IF data.ok THEN avg_confidence(data.conf)
                                ELSE default_confidence(text))
    ELSE IF data.ok /\ s1.ok
         THEN Attempt(s1.text, avg_confidence(data.conf))
         ELSE IF s2.ok THEN Attempt(s2.text, default_confidence(s2.text))
              ELSE Raised

\* one iteration of the alternative PSM loop
alt_attempt(is_dark_screenshot, s1, s2, data) ==
    IF ~s1.ok THEN Raised
    ELSE IF is_dark_screenshot /\ ~s2.ok THEN Raised
    ELSE LET text == IF is_dark_screenshot
                     THEN longer_text(s1.text, s2.text) ELSE s1.text
         IN  Attempt(text, IF data.ok THEN avg_confidence(data.conf)
                           ELSE default_confidence(text))

\* if text and (not best_text or avg_confidence > best_confidence)
\* (KeepsGe and KeepsAny are the variants with >= and without the text test.)
KeepsGe(a, cur_text, cur_confidence) ==
    /\ ~a.raised
    /\ a.text # <<>>
    /\ (cur_text = <<>> \/ ~RatGt(cur_confidence, a.conf))

KeepsAny(a, cur_text, cur_confidence) ==
    /\ ~a.raised
    /\ (cur_text = <<>> \/ RatGt(a.conf, cur_confidence))

keeps(a, cur_text, cur_confidence) ==
    /\ ~a.raised
    /\ a.text # <<>>
    /\ (cur_text = <<>> \/ RatGt(a.conf, cur_confidence))

\* the names of preprocessed_images, in the order they are appended
variant_names(enhancement, is_dark_screenshot) ==
    (IF enhancement = "Super" \/ is_dark_screenshot
     THEN <<"Dark Mode", "Inverted", "Direct">> ELSE <<>>)
    \o (IF enhancement = "Super"
        THEN <<"Medium", "Heavy", "Adaptive">> ELSE <<enhancement>>)

alternative_psm_modes == <<3, 4, 6, 11, 1, 7>>

Variants == variant_names(ocr_in.enhancement, ocr_in.is_dark_screenshot)

NoSettings == [kind |-> "", name |-> "", psm |-> 0, conf |-> <<0, 1>>]

\* history: remember the earliest text-producing attempt of each confidence value
Score(a, order, settings) ==
    IF a.raised \/ a.text = <<>> \/ (\E r \in scored : r.conf = a.conf)
    THEN scored
    ELSE scored \cup { [conf |-> a.conf, order |-> order, settings |-> settings] }

Record(a, order, settings) ==
    /\ any_text' = (any_text \/ (~a.raised /\ a.text # <<>>))
    /\ scored' = Score(a, order, settings)
    /\ IF keeps(a, best_text, best_confidence)
       THEN /\ best_text' = a.text
            /\ best_confidence' = a.conf
            /\ best_settings' = settings
       ELSE UNCHANGED <<best_text, best_confidence, best_settings>>

\* best_preproc = preprocessed_images[0][1]  # Default to first preprocessing
best_preproc(preprocessed_images) == preprocessed_images[1]

\* the return statements of perform_ocr: the outer except, "if not best_text",
\* and the formatted result
perform_ocr_return(raised, text) ==
    IF raised THEN "OCR Error"
    ELSE IF text = <<>> THEN "No text detected" ELSE "Settings"

OcrInit ==
    /\ ocr_in = [enhancement |-> "Medium", is_dark_screenshot |-> FALSE, psm |-> 3,
                 build_raises |-> 0]
    /\ alt_preproc = ""
    /\ attempted = {}
    /\ ocr_return = ""
    /\ pc = "done"
    /\ idx = 0
    /\ best_text = <<>>
    /\ best_confidence = <<0, 1>>
    /\ best_settings = NoSettings
    /\ any_text = FALSE
    /\ scored = {}

\* perform_ocr is called: settings are read, the variants are built, the locals
\* best_text, best_confidence and best_settings are initialised. The variants
\* are built outside the try of the loop over them: when building variant
\* number build_raises raises (0: none does), the except clause of the whole
\* body returns
perform_ocr_begin(enhancement, is_dark_screenshot, psm, build_raises) ==
    /\ pc = "done"
    /\ build_raises \in 0..Len(variant_names(enhancement, is_dark_screenshot))
    /\ ocr_in' = [enhancement |-> enhancement,
                  is_dark_screenshot |-> is_dark_screenshot, psm |-> psm,
                  build_raises |-> build_raises]
    /\ IF build_raises = 0
       THEN /\ pc' = "variants"
            /\ ocr_return' = ""
       ELSE /\ pc' = "done"
            /\ ocr_return' = perform_ocr_return(TRUE, <<>>)
    /\ alt_preproc' = ""
    /\ attempted' = {}
    /\ idx' = 1
    /\ best_text' = <<>>
    /\ best_confidence' = <<0, 1>>
    /\ best_settings' = NoSettings
    /\ any_text' = FALSE
    /\ scored' = {}

\* one iteration of "for preproc_name, processed_img in preprocessed_images";
\* after the last one the condition of the alternative PSM retry is evaluated
variant_iteration(s1, s2, data) ==
    /\ pc = "variants"
    /\ LET a == variant_attempt(Variants[idx], s1, s2, data)
           settings == [kind |-> "variant", name |-> Variants[idx],
                        psm |-> ocr_in.psm, conf |-> a.conf]
       IN  Record(a, idx, settings)
    /\ attempted' = attempted \cup {Variants[idx]}
    /\ IF idx < Len(Variants)
       THEN /\ idx' = idx + 1
            /\ pc' = "variants"
       ELSE /\ idx' = 1
            /\ pc' = IF \/ ocr_in.enhancement = "Super"
                        \/ (best_text' = <<>> /\ ocr_in.is_dark_screenshot)
                     THEN "alt_psm" ELSE "direct"
    /\ UNCHANGED <<ocr_in, alt_preproc, ocr_return>>

\* one iteration of "for alt_psm in alternative_psm_modes"
alt_psm_iteration(s1, s2, data) ==
    /\ pc = "alt_psm"
    /\ IF alternative_psm_modes[idx] = ocr_in.psm
       THEN UNCHANGED <<best_text, best_confidence, best_settings,
                        any_text, scored, alt_preproc>>
       ELSE LET a == alt_attempt(ocr_in.is_dark_screenshot, s1, s2, data)
                settings == [kind |-> "alt", name |-> "",
                             psm |-> alternative_psm_modes[idx],
                             conf |-> a.conf]
            IN  /\ Record(a, Len(Variants) + idx, settings)
                /\ alt_preproc' = best_preproc(Variants)
    /\ IF idx < Len(alternative_psm_modes)
       THEN /\ idx' = idx + 1
            /\ pc' = "alt_psm"
       ELSE /\ idx' = 1
            /\ pc' = "direct"
    /\ UNCHANGED <<ocr_in, attempted, ocr_return>>

\* the last resort and the return: extract_text_from_screenshot is tried only
\* when best_text is still empty; s is its outcome
direct_extraction(s) ==
    /\ pc = "direct"
    /\ IF best_text = <<>> /\ s.ok /\ s.text # <<>>
       THEN /\ best_text' = s.text
            /\ best_settings' = [NoSettings EXCEPT !.kind = "direct"]
       ELSE UNCHANGED <<best_text, best_settings>>
    /\ pc' = "done"
    /\ ocr_return' = perform_ocr_return(FALSE, best_text')
    /\ UNCHANGED <<ocr_in, idx, best_confidence, any_text, scored,
                   alt_preproc, attempted>>

-----------------------------------------------------------------------------
(* Specifications *)

Enhancements == {"Medium", "Super"}
\* the longest list of variants: three for a dark background, three of Super
MaxVariants == Len(variant_names("Super", TRUE))
PsmChoices == {3, 8}

StoreNext ==
    \/ \E t \in QuestionTexts, o \in OptionLists, f \in FileNames :
         \E k \in 0..(Len(o) + 2) : store_question(t, o, f, k)
    \/ \E id \in Ids, failed \in BOOLEAN : delete_question(id, failed)
    \/ \E f \in FileNames : mark_file_unprocessed(f)
    \/ \E id \in Ids : update_question_and_options(id, <<"b">>, <<>>)

(* The components that a specification does not exercise stay idle.        *)
PreprocessIdle ==
    /\ image_shape = <<0, 0>>
    /\ result_shape = <<0, 0>>
    /\ pp_pc = "idle"

NoParse == [question_text |-> <<>>, options |-> <<>>, result |-> <<>>]

ParserIdle ==
    /\ fq_in = [clean |-> FALSE, q |-> <<>>, opts |-> <<>>, text |-> <<>>]
    /\ fq_out = NoParse
    /\ fq_pc = "idle"

ListingIdle ==
    /\ listdir = <<>>
    /\ file_listbox = <<>>
    /\ ls_pc = "idle"

BatchFiles == {"a.png", "b.png"}

\* BatchProcessor.__init__, lines 229-235, and the two buttons as created
BatchInit ==
    /\ processing_queue = <<>>
    /\ results_queue = <<>>
    /\ ocr_results = [f \in BatchFiles |-> ""]
    /\ ocr_tasks = {}
    /\ stop_processing = FALSE
    /\ process_button = TRUE
    /\ stop_button = FALSE
    /\ checking = FALSE
    /\ threads = <<>>
    /\ run_config = [use_ocr |-> FALSE, has_vision |-> FALSE, max_retries |-> 0]
    /\ enqueued = <<>>
    /\ taken = <<>>
    /\ ocr_done = <<>>
    /\ requests = [f \in BatchFiles |-> 0]
    /\ outcome = [f \in BatchFiles |-> "none"]

\* the folder of start_ocr_processing and its image files, sorted
input_dir == <<"d">>
folder_images == << <<"x">>, <<"y">> >>
FolderFilesOcr == { folder_images[i] : i \in 1..Len(folder_images) }

\* no run of start_ocr_processing yet
NotLocated == [question_text |-> <<>>, question_index |-> 0,
               options_start_index |-> 1, rule |-> ""]

QuestionSpanIdle ==
    /\ raw_lines = <<>>
    /\ parsed = NotLocated
    /\ pq_pc = "idle"

IncrementalInit ==
    /\ processed_files = {}
    /\ skipped_files = {}
    /\ stored_as = [f \in FolderFilesOcr |-> 0]

OthersIdle == PreprocessIdle /\ ParserIdle /\ ListingIdle /\ BatchInit /\ IncrementalInit
        /\ QuestionSpanIdle

OthersUnchanged ==
    /\ UNCHANGED ppVars /\ UNCHANGED fqVars /\ UNCHANGED lsVars /\ UNCHANGED bpVars
    /\ UNCHANGED incVars /\ UNCHANGED pqVars

Init == StoreInit /\ OcrInit /\ OthersIdle

Next == StoreNext /\ UNCHANGED ocrVars /\ OthersUnchanged

Spec == Init /\ [][Next]_vars

EditNext ==
    \/ \E t \in TwoTexts, o \in OptionLists :
         store_question(t, o, <<"x">>, 0)
    \/ \E id \in Ids, t \in TwoTexts, o \in OptionLists :
         update_question_and_options(id, t, o)
    \/ \E id \in Ids : delete_question(id, FALSE)

EditSpecNext == EditNext /\ UNCHANGED ocrVars /\ OthersUnchanged

EditSpec == Init /\ [][EditSpecNext]_vars

LlmNext ==
    \/ \E t \in TwoTexts : store_question(t, <<>>, <<"x">>, 0)
    \/ \E id \in Ids, r \in LlmTriples :
         update_llm_results(id, r[1], r[2], r[3])
    \/ \E id \in Ids : delete_llm_info(id)
    \/ \E id \in Ids : delete_question(id, FALSE)

LlmSpecNext == LlmNext /\ UNCHANGED ocrVars /\ OthersUnchanged

LlmSpec == Init /\ [][LlmSpecNext]_vars

OcrNext ==
    \/ \E e \in Enhancements, dark \in BOOLEAN, p \in PsmChoices,
          k \in 0..MaxVariants :
         perform_ocr_begin(e, dark, p, k)
    \/ \E s1 \in StringOutcomes, s2 \in StringOutcomes, d \in DataOutcomes :
         variant_iteration(s1, s2, d)
    \/ \E s1 \in StringOutcomes, s2 \in StringOutcomes, d \in DataOutcomes :
         alt_psm_iteration(s1, s2, d)
    \/ \E s \in StringOutcomes : direct_extraction(s)

OcrSpecNext == OcrNext /\ UNCHANGED storeVars /\ OthersUnchanged

OcrSpec == Init /\ [][OcrSpecNext]_vars

-----------------------------------------------------------------------------
(* Properties of the store *)

StoredOk == lastCall.op = "store_question" /\ lastCall.ret

SourcesOf(tbl, question_id) == { sf \in tbl : sf.question_id = question_id }

\* C1: two consecutive successful store_question calls whose texts are equal
\* after lowercasing and collapsing whitespace leave exactly one question
\* record of that hash, and when the two filenames differ (different
\* basenames) both files have a source-file record for that question.
C1_OneQuestionTwoSources ==
    [][ ( /\ StoredOk
          /\ StoredOk'
          /\ compute_question_hash(lastCall.text)
               = compute_question_hash(lastCall'.text) )
        => LET h == compute_question_hash(lastCall'.text)
               qs == { q \in questions' : q.question_hash = h }
           IN  /\ Cardinality(qs) = 1
               /\ basename(lastCall.file) # basename(lastCall'.file)
                    => \A q \in qs : \A f \in {lastCall.file, lastCall'.file} :
                         \E sf \in SourcesOf(source_files', q.id) :
                             sf.filename_hash = compute_filename_hash(f) ]_vars

\* C2: right after delete_question(id) has returned True, is_file_processed
\* is False for every filename that was a source file of the question.
C2_DeleteResetsProcessed ==
    (lastCall.op = "delete_question" /\ lastCall.ret)
        => \A f \in lastCall.filenames : ~is_file_processed(f)

C2_Witness ==
    /\ lastCall.op = "delete_question"
    /\ lastCall.ret
    /\ Cardinality(lastCall.filenames) = 2
    /\ questions # {}

\* C3: every successful store_question(text, opts, f) leaves a source-file
\* record that associates the stored question with the file f (by the hash of
\* its basename), also when f is already associated with another question.
C3_StoreAssociatesFile ==
    StoredOk
        => \E sf \in SourcesOf(source_files, lastCall.id) :
               sf.filename_hash = compute_filename_hash(lastCall.file)

ExpectedOptions(opts) ==
    [i \in 1..Len(opts) |-> [letter |-> option_letter(i), text |-> opts[i]]]

NoDanglingOptions ==
    \A o \in options : \E q \in questions : q.id = o.question_id

\* C4: after store_question or update_question_and_options on an existing
\* question, the options of that question are exactly the letters A.. of the
\* new list with the new texts; no option of an earlier, longer list remains.
C4_OptionsReplacedWholesale ==
    [][ ( /\ lastCall'.op \in {"store_question", "update_question_and_options"}
          /\ lastCall'.ret
          /\ NoDanglingOptions
          /\ \E q \in questions : q.id = lastCall'.id )
        => OptionsFrom(options', lastCall'.id, 1)
             = ExpectedOptions(lastCall'.opts) ]_vars

\* C5: in every reachable state and for every filename f, is_file_processed(f)
\* is True if and only if some source-file record was stored for a file with
\* the basename of f and the question it references still exists.
C5_IsFileProcessedIff ==
    \A f \in FileNames :
        is_file_processed(f)
            <=> \E sf \in source_files :
                    /\ basename(sf.filename) = basename(f)
                    /\ \E q \in questions : q.id = sf.question_id

C5_Witness ==
    /\ is_file_processed(<<"d", "/", "x">>)
    /\ \A sf \in source_files : sf.filename # <<"d", "/", "x">>
    /\ ~is_file_processed(<<"y">>)
    /\ Cardinality(questions) = 2

\* a TEXT value that is present and has a character that is not whitespace
Present(v) == v # NULL /\ \E i \in 1..Len(v[1]) : ~IsSpace(v[1][i])

\* C6: has_llm_results(id) is True if and only if the question exists and
\* each of llm_answer, llm_justification and llm_explanations is present and
\* non-blank; one null, empty or whitespace-only field makes it False.
C6_HasLlmResultsIff ==
    \A id \in Ids :
        has_llm_results(id)
            <=> \E q \in questions :
                    /\ q.id = id
                    /\ Present(q.llm_answer)
                    /\ Present(q.llm_justification)
                    /\ Present(q.llm_explanations)

C6_Witness ==
    \E q1 \in questions, q2 \in questions :
        /\ has_llm_results(q1.id)
        /\ ~has_llm_results(q2.id)
        /\ q2.llm_answer = Good
        /\ q2.llm_justification = Text(<<" ", "\t">>)
        /\ q2.llm_explanations = Good

\* C7: right after delete_question(id) has returned True no question record
\* with that id, no option record and no source-file record of that question
\* remains.
C7_DeleteCascades ==
    (lastCall.op = "delete_question" /\ lastCall.ret)
        => /\ \A q \in questions : q.id # lastCall.id
           /\ \A o \in options : o.question_id # lastCall.id
           /\ \A sf \in source_files : sf.question_id # lastCall.id

C7_Witness ==
    /\ lastCall.op = "delete_question"
    /\ lastCall.ret
    /\ lastCall.filenames # {}
    /\ options # {}

\* C8: a store_question call in which a statement raises a storage-layer
\* error returns False and leaves questions, options, source files and the
\* id sequence as they were before the call.
C8_FailedStoreChangesNothing ==
    [][ (lastCall'.op = "store_question" /\ ~lastCall'.ret)
        => UNCHANGED <<questions, options, source_files, seq>> ]_vars

C8_Witness ==
    /\ lastCall.op = "store_question"
    /\ ~lastCall.ret
    /\ lastCall.failAt = 4
    /\ questions # {}

-----------------------------------------------------------------------------
(* Properties of perform_ocr *)

\* C9: as soon as one attempt of the variant loop or of the alternative PSM
\* loop has produced non-empty text, the retained best text is non-empty, up
\* to and including the end of the call.
C9_BestTextNonEmpty == any_text => best_text # <<>>

C9_Witness ==
    /\ pc = "done"
    /\ any_text
    /\ ocr_in.enhancement = "Super"
    /\ best_settings.kind = "variant"
    /\ best_settings.name = "Dark Mode"
    /\ RatEq(best_confidence, <<0, 1>>)

\* the text-producing attempts of the highest confidence
TopScored == { r \in scored : \A s \in scored : ~RatGt(s.conf, r.conf) }

\* C10: the retained best attempt is the attempt of highest confidence among
\* those with non-empty text, and among several of that confidence the one
\* made first.
C10_BestIsEarliestHighest ==
    scored # {}
        => \E r \in TopScored :
               /\ \A s \in TopScored : r.order <= s.order
               /\ best_settings = r.settings
               /\ RatEq(best_confidence, r.conf)
               /\ best_text # <<>>

C10_Witness ==
    /\ pc = "done"
    /\ Cardinality(TopScored) = 2
    /\ Cardinality(scored) = 3
    /\ best_settings.kind = "alt"

-----------------------------------------------------------------------------
(* Image preprocessing: the resize step of the two preprocess_image        *)
(* functions of src/00_LMStudio_batch_processor.py.  An image is           *)
(* represented by its shape <<height, width>>; a scale factor is a         *)
(* rational <<num, den>>.                                                   *)

ResizeTarget == 3000
ResizeCap == 2
ModuleResizeTarget == 3500
ModuleResizeCap == 4
BorderWidth == 10

\* min(cap, target / longest side)
capped_scale(cap, target, shape) ==
    LET max_dim == Max2(shape[1], shape[2])
    IN  IF target >= cap * max_dim THEN <<cap, 1>> ELSE <<target, max_dim>>

\* line 1537: scale_percent = min(2.0, 3000 / max(gray.shape[0], gray.shape[1]))
scale_percent(shape) == capped_scale(ResizeCap, ResizeTarget, shape)

\* line 66: scale = min(4.0, 3500 / max_dim)
scale(shape) == capped_scale(ModuleResizeCap, ModuleResizeTarget, shape)

\* int(n * s) for a double s: the exact product truncated; when the quotient
\* s is not an integer its rounding may leave an integral product just below
\* the integer, and int() then yields one less.
int_scaled(n, s) ==
    LET exact == (n * s[1]) \div s[2]
    IN  IF s[2] /= 1 /\ (n * s[1]) % s[2] = 0 /\ exact > 0
        THEN {exact, exact - 1}
        ELSE {exact}

\* line 1538 "if scale_percent != 1.0" and line 67 "if scale > 1.0"
ResizesWhenNotOne(s) == s[1] /= s[2]
ResizesWhenAboveOne(s) == s[1] > s[2]

\* cv2.resize(gray, (width, height)) gives shape (height, width)
resized(shape, s) ==
    { <<h, w>> : h \in int_scaled(shape[1], s), w \in int_scaled(shape[2], s) }

\* cv2.copyMakeBorder(result, 10, 10, 10, 10, ...)
copyMakeBorder(shape) == <<shape[1] + 2 * BorderWidth, shape[2] + 2 * BorderWidth>>

EnhancementLevels == {"None", "Heavy"}

Sides == {1, 700, 1500, 1501, 2999, 3000, 3001, 3021, 3500, 4000}

PreprocessInit ==
    /\ image_shape \in Sides \X Sides
    /\ result_shape = <<0, 0>>
    /\ pp_pc = "ready"

\* BatchProcessor.preprocess_image (the method perform_ocr calls)
preprocess_image(enhancement_level) ==
    /\ pp_pc = "ready"
    /\ pp_pc' = "method"
    /\ IF enhancement_level = "None"
       THEN result_shape' = image_shape
       ELSE LET s == scale_percent(image_shape)
            IN  \E g \in (IF ResizesWhenNotOne(s) THEN resized(image_shape, s)
                                                  ELSE {image_shape}) :
                    /\ g[1] > 0 /\ g[2] > 0      \* cv2.resize rejects an empty size
                    /\ result_shape' = copyMakeBorder(g)
    /\ UNCHANGED image_shape

\* the module-level preprocess_image
preprocess_image_module ==
    /\ pp_pc = "ready"
    /\ pp_pc' = "module"
    /\ LET s == scale(image_shape)
       IN  \E g \in (IF ResizesWhenAboveOne(s) THEN resized(image_shape, s)
                                               ELSE {image_shape}) :
               result_shape' = g
    /\ UNCHANGED image_shape

PreprocessNext ==
    \/ \E l \in EnhancementLevels : preprocess_image(l)
    \/ preprocess_image_module

PreprocessSpecInit ==
    StoreInit /\ OcrInit /\ PreprocessInit /\ ParserIdle /\ ListingIdle /\ BatchInit /\ IncrementalInit
        /\ QuestionSpanIdle

PreprocessSpecNext ==
    /\ PreprocessNext
    /\ UNCHANGED storeVars /\ UNCHANGED ocrVars /\ UNCHANGED fqVars /\ UNCHANGED lsVars
    /\ UNCHANGED bpVars /\ UNCHANGED incVars /\ UNCHANGED pqVars

PreprocessSpec == PreprocessSpecInit /\ [][PreprocessSpecNext]_vars

\* C11: the image a preprocess_image function returns is never smaller than
\* the image it was given, in width or in height.
C11_NeverSmaller ==
    pp_pc \in {"method", "module"} =>
        /\ result_shape[1] >= image_shape[1]
        /\ result_shape[2] >= image_shape[2]

-----------------------------------------------------------------------------
(* Question text parsing: BatchProcessor.format_question_options and       *)
(* clean_option_text.  The regular expressions are computed position by    *)
(* position on the character sequences.  A glyph outside ASCII is written  *)
(* as the name of its code point.                                          *)

UpperLetters == <<"A", "B", "C", "D", "E", "F", "G", "H", "I", "J", "K", "L", "M", "N", "O", "P", "Q", "R", "S", "T", "U", "V", "W", "X", "Y", "Z">>
LowerLetters == <<"a", "b", "c", "d", "e", "f", "g", "h", "i", "j", "k", "l", "m", "n", "o", "p", "q", "r", "s", "t", "u", "v", "w", "x", "y", "z">>
Digits == {"0", "1", "2", "3", "4", "5", "6", "7", "8", "9"}

\* re.IGNORECASE: compare the lower-case forms
casefold(c) ==
    IF \E k \in 1..26 : UpperLetters[k] = c
    THEN LowerLetters[CHOOSE k \in 1..26 : UpperLetters[k] = c]
    ELSE c

\* [a-zA-Z0-9]
IsAlnum(c) ==
    \/ \E k \in 1..26 : UpperLetters[k] = c \/ LowerLetters[k] = c
    \/ c \in Digits

\* \w
IsWordChar(c) == IsAlnum(c) \/ c = "_"

\* F applied to the value of e, e being evaluated once
Then(e, F(_)) == CHOOSE r \in { F(x) : x \in {e} } : TRUE

\* the first position from i on that does not satisfy Test, Len(s) + 1 when
\* there is none
RunStop(s, i, Test(_)) ==
    Then(i, LAMBDA from :
        CHOOSE j \in from..Max2(from, Len(s) + 1) :
            /\ j > Len(s) \/ ~ Test(s[j])
            /\ \A m \in from..(j - 1) : Test(s[m]))

\* \s* from position i: the first position that holds no whitespace
SkipSpaces(s, i) == RunStop(s, i, IsSpace)

\* pieces[lo] \o ... \o pieces[hi]
RECURSIVE Concat(_, _, _)
Concat(pieces, lo, hi) ==
    IF lo > hi THEN <<>>
    ELSE IF lo = hi THEN pieces[lo]
    ELSE Concat(pieces, lo, (lo + hi) \div 2)
         \o Concat(pieces, (lo + hi) \div 2 + 1, hi)

Indices(seq_) == [i \in 1..Len(seq_) |-> i]

\* everything from position i on
From(s, i) == SubSeq(s, i, Len(s))

OccursAt(s, i, pat) ==
    /\ i + Len(pat) - 1 <= Len(s)
    /\ \A k \in 1..Len(pat) : s[i + k - 1] = pat[k]

OccursAtFold(s, i, pat) ==
    /\ i + Len(pat) - 1 <= Len(s)
    /\ \A k \in 1..Len(pat) : casefold(s[i + k - 1]) = casefold(pat[k])

\* str.replace(old, new) for an old that cannot overlap itself (no key of
\* the table of replacements does): every occurrence is replaced, and the
\* characters outside the occurrences are copied
replace(s, old, new) ==
    Then([i \in 1..Len(s) |->
             IF OccursAt(s, i, old) THEN new
             ELSE IF \E m \in 1..(i - 1) : m + Len(old) > i /\ OccursAt(s, m, old)
                  THEN <<>>
                  ELSE <<s[i]>>] \o <<>>,
         LAMBDA pieces : Concat(pieces, 1, Len(pieces)))

\* str.replace(old, "", 1)
remove_first(s, old) ==
    IF old = <<>> \/ ~ \E i \in 1..Len(s) : OccursAt(s, i, old)
    THEN s
    ELSE LET i == CHOOSE k \in 1..Len(s) :
                      /\ OccursAt(s, k, old)
                      /\ \A m \in 1..(k - 1) : ~ OccursAt(s, m, old)
         IN  SubSeq(s, 1, i - 1) \o From(s, i + Len(old))

\* str.split(sep) for a one-character sep: the pieces between consecutive
\* separators, empty pieces kept
split(s, sep) ==
    Then(SelectSeq(Indices(s), LAMBDA i : s[i] = sep), LAMBDA at :
        [k \in 1..(Len(at) + 1) |->
            SubSeq(s, IF k = 1 THEN 1 ELSE at[k - 1] + 1,
                      IF k > Len(at) THEN Len(s) ELSE at[k] - 1)] \o <<>>)

\* sep.join(pieces)
RECURSIVE join(_, _)
join(sep, pieces) ==
    IF pieces = <<>> THEN <<>>
    ELSE IF Len(pieces) = 1 THEN pieces[1]
    ELSE pieces[1] \o sep \o join(sep, Tail(pieces))

\* the dictionary "replacements", in insertion order
replacements ==
    << <<<<"0", "p", "t", "i", "o", "n">>, <<"O", "p", "t", "i", "o", "n">>>>,
       <<<<"0", "p", "t", "i", "o", "n", "s">>, <<"O", "p", "t", "i", "o", "n", "s">>>>,
       <<<<"O", "u", "e", "s", "t", "i", "o", "n">>, <<"Q", "u", "e", "s", "t", "i", "o", "n">>>>,
       <<<<"Q", "p", "t", "i", "o", "n">>, <<"O", "p", "t", "i", "o", "n">>>>,
       <<<<"0", ":">>, <<"O", "p", "t", "i", "o", "n", ":">>>>,
       <<<<"0", ".">>, <<"O", "p", "t", "i", "o", "n", ":">>>>,
       <<<<"|">>, <<"I">>>>,
       <<<<"l", ".">>, <<"1", ".">>>>,
       <<<<"l", ")">>, <<"1", ")">>>>,
       <<<<"O", ".">>, <<"0", ".">>>>,
       <<<<"O", ")">>, <<"0", ")">>>>,
       <<<<"(", "A", ")">>, <<"A", ")">>>>,
       <<<<"(", "B", ")">>, <<"B", ")">>>>,
       <<<<"(", "C", ")">>, <<"C", ")">>>>,
       <<<<"(", "D", ")">>, <<"D", ")">>>> >>

RECURSIVE apply_replacements(_, _)
apply_replacements(clean_text, k) ==
    IF k > Len(replacements) THEN clean_text
    ELSE Then(replace(clean_text, replacements[k][1], replacements[k][2]),
              LAMBDA t : apply_replacements(t, k + 1))

\* the glyphs of the first alternative of the expression of line 1883
CircleGlyphs ==
    {"U+25CB", "U+25CF", "U+2022", "U+25C9", "U+29BF", "U+26AA", "U+26AB"}

\* [\(\[]?\s*[Oo]\s*[\)\]]?\s* at position i: the position after the match,
\* or 0 when there is no match at i
circle_match_end(s, i) ==
    LET a == IF i <= Len(s) /\ s[i] \in {"(", "["} THEN i + 1 ELSE i
        b == SkipSpaces(s, a)
    IN  IF b <= Len(s) /\ s[b] \in {"O", "o"}
        THEN LET c == SkipSpaces(s, b + 1)
                 d == IF c <= Len(s) /\ s[c] \in {")", "]"} THEN c + 1 ELSE c
             IN  SkipSpaces(s, d)
        ELSE 0

\* re.sub(r'[glyphs]|[\(\[]?\s*[Oo]\s*[\)\]]?\s*', '', clean_text).
\* A match attempt that starts inside a match of the scan and reaches beyond
\* it runs over whitespace up to the next O, where the scan matches again up
\* to the same end; so the characters removed are those covered by a match
\* attempt from any position.
remove_circles(s) ==
    Then(SelectSeq(Indices(s),
                   LAMBDA p : ~ \/ s[p] \in CircleGlyphs
                                \/ \E i \in 1..p : circle_match_end(s, i) > p),
         LAMBDA kept : [k \in 1..Len(kept) |-> s[kept[k]]] \o <<>>)

IsTerminator(c) == c \in {".", "!", "?"}

\* [^.!?]+ from position i: the first position that holds ., ! or ?
RunEnd(s, i) == RunStop(s, i, LAMBDA c : ~ IsTerminator(c))

\* re.search(r'([^.!?]+\?)', clean_text): the leftmost match
RECURSIVE question_match_from(_, _)
question_match_from(s, i) ==
    IF i > Len(s) THEN [found |-> FALSE, group |-> <<>>]
    ELSE IF IsTerminator(s[i]) THEN question_match_from(s, i + 1)
    ELSE Then(RunEnd(s, i), LAMBDA j :
             IF j <= Len(s) /\ s[j] = "?"
             THEN [found |-> TRUE, group |-> SubSeq(s, i, j)]
             ELSE question_match_from(s, j + 1))

question_match(clean_text) == question_match_from(clean_text, 1)

NoMatch == [found |-> FALSE, group |-> <<>>]

OptionSeparators == {".", ":", ")"}
MarkerSeparators == {".", ":"}

\* [\.\:\)\s] and [\.\:\s]
IsSeparator(c, seps) == c \in seps \/ IsSpace(c)

\* line 1895: re.search(r'^\s*A[\.\:\)\s]', line)
starts_with_A(line) ==
    LET j == SkipSpaces(line, 1)
    IN  /\ j + 1 <= Len(line)
        /\ line[j] = "A"
        /\ IsSeparator(line[j + 1], OptionSeparators)

\* line 1896: re.search(r'^\s*[Oo]?ption\s*A[\.\:\s]', line, re.IGNORECASE)
starts_with_option_A(line) ==
    LET j == SkipSpaces(line, 1)
        k == IF j <= Len(line) /\ casefold(line[j]) = "o" THEN j + 1 ELSE j
        m == SkipSpaces(line, k + 5)
    IN  /\ OccursAtFold(line, k, <<"p", "t", "i", "o", "n">>)
        /\ m + 1 <= Len(line)
        /\ casefold(line[m]) = "a"
        /\ IsSeparator(line[m + 1], MarkerSeparators)

\* line 1897: re.search(r'^\s*A$', line)
is_A(line) ==
    LET j == SkipSpaces(line, 1)
    IN  j = Len(line) /\ line[j] = "A"

IsOptionStart(line) == starts_with_A(line) \/ starts_with_option_A(line) \/ is_A(line)

\* lines 1893-1899, counting lines from 1: 0 when no line starts the options
option_start_index(lines) ==
    IF \E i \in 1..Len(lines) : IsOptionStart(lines[i])
    THEN CHOOSE i \in 1..Len(lines) :
             /\ IsOptionStart(lines[i])
             /\ \A m \in 1..(i - 1) : ~ IsOptionStart(lines[m])
    ELSE 0

\* lines 1885-1902: the question and what remains of the text
question_and_remaining(clean_text) ==
    Then(question_match(clean_text), LAMBDA m :
        IF m.found
        THEN Then(Strip(m.group), LAMBDA question_text :
                 [question_text |-> question_text,
                  remaining_text |-> remove_first(clean_text, question_text)])
        ELSE Then(split(clean_text, "\n"), LAMBDA lines :
             Then(option_start_index(lines), LAMBDA i :
                 IF i > 1
                 THEN [question_text |-> Strip(join(<<" ">>, SubSeq(lines, 1, i - 1))),
                       remaining_text |-> join(<<"\n">>, SubSeq(lines, i, Len(lines)))]
                 ELSE [question_text |-> <<>>, remaining_text |-> clean_text])))

\* line 1913, on one line: \s*{option}[\.\:\)\s]\s*(.*?)$ with re.IGNORECASE
pattern_1(line, option) ==
    LET j == SkipSpaces(line, 1)
    IN  IF /\ j + 1 <= Len(line)
           /\ casefold(line[j]) = casefold(option)
           /\ IsSeparator(line[j + 1], OptionSeparators)
        THEN [found |-> TRUE, group |-> From(line, SkipSpaces(line, j + 2))]
        ELSE NoMatch

\* lines 1914 and 1915: \s*<marker>{option}[\.\:\s]\s*(.*?)$ where the marker
\* is "[Oo]ption\s+" (spaces required) or "[Oo]ptions:\s*"
marker_pattern(line, option, marker, spaces_required) ==
    LET j == SkipSpaces(line, 1)
        k == j + Len(marker)
        m == SkipSpaces(line, k)
    IN  IF /\ OccursAtFold(line, j, marker)
           /\ (spaces_required => m > k)
           /\ m + 1 <= Len(line)
           /\ casefold(line[m]) = casefold(option)
           /\ IsSeparator(line[m + 1], MarkerSeparators)
        THEN [found |-> TRUE, group |-> From(line, SkipSpaces(line, m + 2))]
        ELSE NoMatch

pattern_2(line, option) ==
    marker_pattern(line, option, <<"o", "p", "t", "i", "o", "n">>, TRUE)

pattern_3(line, option) ==
    marker_pattern(line, option, <<"o", "p", "t", "i", "o", "n", "s", ":">>, FALSE)

\* lines 1918-1923: the first of the three patterns that matches the line
first_pattern(line, option) ==
    IF pattern_1(line, option).found THEN pattern_1(line, option)
    ELSE IF pattern_2(line, option).found THEN pattern_2(line, option)
    ELSE pattern_3(line, option)

\* lines 1917-1925 for one option: its text and the indices added to
\* used_indices
RECURSIVE scan_option(_, _, _, _)
scan_option(lines, option, i, used) ==
    IF i > Len(lines) THEN [text |-> <<>>, used |-> used]
    ELSE LET m == first_pattern(lines[i], option)
         IN  IF ~ m.found THEN scan_option(lines, option, i + 1, used)
             ELSE IF Strip(m.group) # <<>>
                  THEN [text |-> Strip(m.group), used |-> used \cup {i}]
                  ELSE scan_option(lines, option, i + 1, used \cup {i})

OptionKeys == <<"A", "B", "C", "D">>

BulletChars == {"U+2022", "U+2023", "U+25E6", "U+2043", "U+2219", "*", "-"}

IsBulletChar(c) == IsSpace(c) \/ c \in BulletChars

BulletRunEnd(s, i) == RunStop(s, i, IsBulletChar)

\* line 1908: ^[\s<bullets>\*\-]+(.+)$ ; a line made of bullet characters
\* only gives its last character to the group
bullet_regex(line) ==
    LET k == BulletRunEnd(line, 1) - 1
    IN  IF k = 0 THEN NoMatch
        ELSE IF k < Len(line) THEN [found |-> TRUE, group |-> From(line, k + 1)]
        ELSE IF k >= 2 THEN [found |-> TRUE, group |-> <<line[Len(line)]>>]
        ELSE NoMatch

\* the word-level spelling corrector: a corrector that knows one misspelling
spell(word) == IF word = <<"t", "e", "h">> THEN <<"t", "h", "e">> ELSE word

\* TextBlob(text).correct(): every \w+ token is replaced by its correction,
\* every other character is copied
correct(text) ==
    Then([i \in 1..Len(text) |->
             IF ~ IsWordChar(text[i]) THEN <<text[i]>>
             ELSE IF i > 1 /\ IsWordChar(text[i - 1]) THEN <<>>
             ELSE spell(SubSeq(text, i, RunStop(text, i, IsWordChar) - 1))] \o <<>>,
         LAMBDA pieces : Concat(pieces, 1, Len(pieces)))

\* re.sub(r"^[^a-zA-Z0-9]+", "", text)
strip_leading_non_alnum(text) ==
    Then(text, LAMBDA t : From(t, RunStop(t, 1, LAMBDA c : ~ IsAlnum(c))))

clean_option_text(text, textblob_raises) ==
    Then(Strip(strip_leading_non_alnum(text)), LAMBDA cleaned :
        IF /\ cleaned # <<>>
           /\ \E i \in 1..Len(cleaned) : ~ IsSpace(cleaned[i])   \* len(cleaned.split()) > 0
           /\ ~ textblob_raises
        THEN correct(cleaned)
        ELSE cleaned)

NotDetected == <<"[", "O", "p", "t", "i", "o", "n", " ", "t", "e", "x", "t", " ", "n", "o", "t", " ", "d", "e", "t", "e", "c", "t", "e", "d", "]">>

QuestionLabel == <<"Q", "u", "e", "s", "t", "i", "o", "n", ":", " ">>

OptionLabel(option) == <<"O", "p", "t", "i", "o", "n", " ", option, ":", " ">>

\* lines 1938-1940
RECURSIVE render_options(_, _)
render_options(texts, n) ==
    IF n > Len(OptionKeys) THEN <<>>
    ELSE OptionLabel(OptionKeys[n])
         \o (IF texts[n] # <<>> THEN texts[n] ELSE NotDetected)
         \o <<"\n">> \o render_options(texts, n + 1)

\* lines 1903-1904
with_question_mark(question_text) ==
    IF question_text # <<>> /\ question_text[Len(question_text)] # "?"
    THEN Append(question_text, "?")
    ELSE question_text

\* line 1909: the stripped lines of the remaining text that are not empty
stripped_lines(remaining_text) ==
    Then(split(remaining_text, "\n"), LAMBDA pieces :
        SelectSeq([i \in 1..Len(pieces) |-> Strip(pieces[i])] \o <<>>,
                  LAMBDA l : l # <<>>))

\* how many of the options up to n are still empty
empty_rank(texts, n) == Cardinality({ m \in 1..n : texts[m] = <<>> })

\* lines 1910-1935: the texts of the options A to D found in the lines, by
\* the patterns, then by the bullets, then by the lines left over
option_texts(lines) ==
    Then([n \in 1..4 |-> scan_option(lines, OptionKeys[n], 1, {})] \o <<>>, LAMBDA scans :
    Then(UNION { scans[n].used : n \in 1..4 }, LAMBDA used_indices :
    Then(SelectSeq(Indices(lines),
                   LAMBDA i : bullet_regex(lines[i]).found /\ i \notin used_indices),
         LAMBDA bullet_lines :
    Then([n \in 1..4 |->
              IF n <= Len(bullet_lines)
              THEN Strip(bullet_regex(lines[bullet_lines[n]]).group)
              ELSE scans[n].text] \o <<>>, LAMBDA bulleted :
    Then(SelectSeq(Indices(lines),
                   LAMBDA i : /\ i \notin used_indices
                              /\ \A k \in 1..Len(bullet_lines) : bullet_lines[k] # i),
         LAMBDA candidate_lines :
        [n \in 1..4 |->
            IF bulleted[n] = <<>> /\ empty_rank(bulleted, n) <= Len(candidate_lines)
            THEN Strip(lines[candidate_lines[empty_rank(bulleted, n)]])
            ELSE bulleted[n]] \o <<>>)))))

\* lines 1862-1941: the question, the four option texts and the string
\* returned
format_question_options(text, textblob_raises) ==
    Then(remove_circles(apply_replacements(text, 1)), LAMBDA clean_text :
    Then(question_and_remaining(clean_text), LAMBDA qr :
    Then(Strip(clean_option_text(with_question_mark(qr.question_text), textblob_raises)),
         LAMBDA question_text :
    Then(stripped_lines(qr.remaining_text), LAMBDA lines :
    Then(option_texts(lines), LAMBDA filled :
    Then([n \in 1..4 |-> clean_option_text(filled[n], textblob_raises)] \o <<>>,
         LAMBDA options_ :
        [question_text |-> question_text,
         options |-> options_,
         result |-> QuestionLabel \o question_text \o <<"\n", "\n">>
                    \o render_options(options_, 1)]))))))

\* the clean form: "Question: <q>?" and the four lines "Option A: <a>" ..
CleanInput(q, opts) ==
    join(<<"\n">>,
         <<QuestionLabel \o q \o <<"?">>>>
         \o [n \in 1..4 |-> OptionLabel(OptionKeys[n]) \o opts[n]])

CleanQuestions == { <<"I", "s", " ", "x">>, <<"W", "h", "y">> }

CleanOptionTexts == { <<"p">>, <<"y", "e", "s">>, <<"t", "e", "h">> }

RawTexts ==
    { <<"W", "h", "a", "t", " ", "i", "s", "\n", "t", "h", "e", " ", "x", "?", "\n", "A", ".", " ", "p", "\n", "B", ".", " ", "q", "\n", "C", ".", " ", "r", "\n", "D", ".", " ", "s">>,
      <<"I", "s", " ", "i", "t", " ", "t", "e", "h", " ", "x", "?", "\n", "A", ")", " ", "t", "e", "h", "\n", "B", ")", " ", "q", "\n", "C", ")", " ", "r", "\n", "D", ")", " ", "s">>,
      <<"s", "t", "e", "m", "\n", "A", ".", " ", "p", "\n", "B", ".", " ", "q">>,
      <<"-", " ", "p", "\n", "-", " ", "q", "\n", "A", ".", " ", "r">>,
      <<"A", ".", "\n", "z", "z">>,
      <<"h", "i", ".", " ", "w", "h", "o", "?", "\n", "A", ".", " ", "?">>,
      <<>>,
      <<"a", "b", "c">>,
      <<"x", "\n", "A", "\n", "B", ":", " ", "q">>,
      <<"a", "\n", "b", "\n", "c", "\n", "d", "\n", "e">>,
      <<"(", "A", ")", " ", "p", "\n", "(", "B", ")", " ", "q", "\n", "[", "o", "]", " ", "r", "\n", "*", " ", "s">>,
      <<"q", "?", "\n", "A", ".", " ", "p", "\n", "B", ".", " ", "q", "\n", "C", ".", " ", "r">> }

ParserInit ==
    /\ \/ \E q \in CleanQuestions, opts \in [1..4 -> CleanOptionTexts] :
              fq_in = [clean |-> TRUE, q |-> q, opts |-> opts,
                       text |-> CleanInput(q, opts)]
       \/ \E t \in RawTexts :
              fq_in = [clean |-> FALSE, q |-> <<>>, opts |-> <<>>, text |-> t]
    /\ fq_out = NoParse
    /\ fq_pc = "ready"

\* one call of format_question_options; TextBlob either corrects the texts or
\* raises, for every text of the call alike
FormatQuestionOptions(textblob_raises) ==
    /\ fq_pc = "ready"
    /\ fq_pc' = "done"
    /\ fq_out' = format_question_options(fq_in.text, textblob_raises)
    /\ UNCHANGED fq_in

ParserNext == \E textblob_raises \in BOOLEAN : FormatQuestionOptions(textblob_raises)

ParserSpecInit ==
    StoreInit /\ OcrInit /\ PreprocessIdle /\ ParserInit /\ ListingIdle /\ BatchInit /\ IncrementalInit
        /\ QuestionSpanIdle

ParserSpecNext ==
    /\ ParserNext
    /\ UNCHANGED storeVars /\ UNCHANGED ocrVars /\ UNCHANGED ppVars /\ UNCHANGED lsVars
    /\ UNCHANGED bpVars /\ UNCHANGED incVars /\ UNCHANGED pqVars

ParserSpec == ParserSpecInit /\ [][ParserSpecNext]_vars

\* C12: for a text of the clean form, the question returned is <q>? and the
\* four options returned are <a>, <b>, <c>, <d>, character for character.
C12_CleanRoundTrip ==
    fq_pc = "done" /\ fq_in.clean =>
        /\ fq_out.question_text = fq_in.q \o <<"?">>
        /\ fq_out.options = fq_in.opts

StartsWith(s, prefix) == OccursAt(s, 1, prefix)

\* C13: whatever the text, the string returned is one line "Question: ...",
\* an empty line, and the four lines "Option A: ..." to "Option D: ..." in
\* this order, each with a text or with "[Option text not detected]".
C13_OneQuestionFourOptions ==
    fq_pc = "done" =>
        LET lines == split(fq_out.result, "\n")
        IN  /\ Len(lines) = 7
            /\ StartsWith(lines[1], QuestionLabel)
            /\ lines[2] = <<>>
            /\ lines[7] = <<>>
            /\ \A n \in 1..4 :
                   /\ StartsWith(lines[2 + n], OptionLabel(OptionKeys[n]))
                   /\ Len(lines[2 + n]) > Len(OptionLabel(OptionKeys[n]))
                   /\ fq_out.options[n] = <<>> =>
                          lines[2 + n] = OptionLabel(OptionKeys[n]) \o NotDetected

-----------------------------------------------------------------------------
(* The file list: BatchProcessor.extract_timestamp_from_filename and       *)
(* list_image_files.  A pattern is a sequence of atoms: "d" for \d, "s"    *)
(* for [-_], "-" for the hyphen; skip is the number of atoms on each side  *)
(* that lie outside the group.  A bounded repetition is the list of its    *)
(* lengths, longest first.  An integer of Python is the sequence of its    *)
(* decimal digits without leading zeros, 0 being the empty sequence.       *)

DigitChars == <<"0", "1", "2", "3", "4", "5", "6", "7", "8", "9">>

IsDigit(c) == \E k \in 1..10 : DigitChars[k] = c

DigitValue(c) == (CHOOSE k \in 1..10 : DigitChars[k] = c) - 1

AtomMatches(atom, c) ==
    IF atom = "d" THEN IsDigit(c)
    ELSE IF atom = "s" THEN c \in {"-", "_"}
    ELSE c = atom

MatchesAt(name, i, atoms) ==
    /\ i + Len(atoms) - 1 <= Len(name)
    /\ \A k \in 1..Len(atoms) : AtomMatches(atoms[k], name[i + k - 1])

patterns ==
    << [alts |-> <<<<"d", "d", "d", "d", "-", "d", "d", "-", "d", "d", "s", "d", "d", "-", "d", "d", "-", "d", "d">>>>, skip |-> 0],
       [alts |-> <<<<"d", "d", "d", "d", "d", "d", "d", "d", "s", "d", "d", "d", "d", "d", "d">>>>, skip |-> 0],
       [alts |-> <<<<"d", "d", "d", "d", "d", "d", "d", "d", "s", "d", "d", "d", "d", "d", "d">>>>, skip |-> 0],
       [alts |-> <<<<"d", "d", "d", "d", "-", "d", "d", "-", "d", "d">>>>, skip |-> 0],
       [alts |-> <<<<"d", "d", "d", "d", "d", "d", "d", "d">>>>, skip |-> 0],
       [alts |-> <<<<"s", "d", "d", "d", "d", "d", "d", "s">>>>, skip |-> 1],
       [alts |-> <<<<"s", "d", "d", "d", "d", "s">>>>, skip |-> 1],
       [alts |-> <<<<"s", "d", "d", "d", "d", "d", "d", "d", "d", "d", "d", "d", "d", "d", "d", "s">>,
                  <<"s", "d", "d", "d", "d", "d", "d", "d", "d", "d", "d", "d", "d", "d", "s">>,
                  <<"s", "d", "d", "d", "d", "d", "d", "d", "d", "d", "d", "d", "d", "s">>,
                  <<"s", "d", "d", "d", "d", "d", "d", "d", "d", "d", "d", "d", "s">>,
                  <<"s", "d", "d", "d", "d", "d", "d", "d", "d", "d", "d", "s">>>>, skip |-> 1] >>

\* re.search(pattern, filename): the leftmost position where an alternative
\* matches, and there the first alternative that does; group(1)
pattern_search(pattern, filename) ==
    LET hit(i) == \E a \in 1..Len(pattern.alts) : MatchesAt(filename, i, pattern.alts[a])
    IN  IF ~ \E i \in 1..Len(filename) : hit(i) THEN NoMatch
        ELSE LET i == CHOOSE k \in 1..Len(filename) :
                          hit(k) /\ \A m \in 1..(k - 1) : ~ hit(m)
                 a == CHOOSE k \in 1..Len(pattern.alts) :
                          /\ MatchesAt(filename, i, pattern.alts[k])
                          /\ \A m \in 1..(k - 1) : ~ MatchesAt(filename, i, pattern.alts[m])
             IN  [found |-> TRUE,
                  group |-> SubSeq(filename, i + pattern.skip,
                                   i + Len(pattern.alts[a]) - 1 - pattern.skip)]

\* int(re.sub(r'\D', '', timestamp_str))
int_of_digits(timestamp_str) ==
    LET numeric_timestamp == SelectSeq(timestamp_str, IsDigit)
    IN  From(numeric_timestamp, RunStop(numeric_timestamp, 1, LAMBDA c : c = "0"))

\* comparison of two integers given by their digits
IntLess(a, b) ==
    \/ Len(a) < Len(b)
    \/ /\ Len(a) = Len(b)
       /\ \E i \in 1..Len(a) :
              /\ DigitValue(a[i]) < DigitValue(b[i])
              /\ \A j \in 1..(i - 1) : a[j] = b[j]

RECURSIVE extract_from(_, _)
extract_from(filename, k) ==
    IF k > Len(patterns) THEN <<>>
    ELSE LET match == pattern_search(patterns[k], filename)
         IN  IF match.found /\ SelectSeq(match.group, IsDigit) # <<>>
             THEN int_of_digits(match.group)
             ELSE extract_from(filename, k + 1)

extract_timestamp_from_filename(filename) == extract_from(filename, 1)

ImageExtensions ==
    { <<".", "j", "p", "g">>, <<".", "j", "p", "e", "g">>, <<".", "p", "n", "g">>, <<".", "b", "m", "p">>, <<".", "g", "i", "f">> }

EndsWith(s, suffix) ==
    Len(suffix) <= Len(s) /\ OccursAt(s, Len(s) - Len(suffix) + 1, suffix)

\* file.lower().endswith(('.jpg', '.jpeg', '.png', '.bmp', '.gif'))
is_image_file(file) ==
    \E ext \in ImageExtensions : EndsWith([i \in 1..Len(file) |-> casefold(file[i])], ext)

\* variant: the list is left in the order of the directory listing
ListingOrder(image_files, i, j) == i < j

\* image_files.sort(key=lambda x: x[1]): the entry at i comes before the entry
\* at j; the sort is stable, equal keys keep their order
TimestampOrder(image_files, i, j) ==
    \/ IntLess(extract_timestamp_from_filename(image_files[i]),
               extract_timestamp_from_filename(image_files[j]))
    \/ /\ extract_timestamp_from_filename(image_files[i])
            = extract_timestamp_from_filename(image_files[j])
       /\ i < j

\* lines 998-1015: the image files of the listing, sorted
sorted_filenames(listing) ==
    LET image_files == SelectSeq(listing, is_image_file)
        place(i) == 1 + Cardinality({ j \in 1..Len(image_files) :
                                        TimestampOrder(image_files, j, i) })
    IN  [k \in 1..Len(image_files) |->
            image_files[CHOOSE i \in 1..Len(image_files) : place(i) = k]]

FolderFiles ==
    { <<"p", "a", "g", "e", "_", "2", "0", "2", "4", "0", "1", "0", "1", "-", "0", "9", "0", "0", "0", "0", ".", "p", "n", "g">>,
      <<"p", "a", "g", "e", "_", "2", "0", "2", "4", "0", "1", "0", "1", "-", "0", "8", "0", "0", "0", "0", ".", "p", "n", "g">>,
      <<"a", ".", "p", "n", "g">>,
      <<"b", ".", "P", "N", "G">>,
      <<"n", ".", "t", "x", "t">>,
      <<"s", "_", "1", "2", "3", "0", "_", ".", "j", "p", "g">>,
      <<"2", "0", "2", "4", "-", "0", "1", "-", "0", "2", ".", "g", "i", "f">>,
      <<"z", "0", "0", "0", "0", "0", "0", "0", "0", ".", "b", "m", "p">> }

\* the orders in which the OS can list the files S
Listings(S) ==
    { f \in [1..Cardinality(S) -> S] : \A i, j \in 1..Cardinality(S) : f[i] = f[j] => i = j }

ListingInit ==
    /\ \E S \in SUBSET FolderFiles :
           /\ Cardinality(S) <= MaxFiles
           /\ listdir \in Listings(S)
    /\ file_listbox = <<>>
    /\ ls_pc = "ready"

list_image_files ==
    /\ ls_pc = "ready"
    /\ ls_pc' = "done"
    /\ file_listbox' = sorted_filenames(listdir)
    /\ UNCHANGED listdir

ListingNext == list_image_files

ListingSpecInit ==
    StoreInit /\ OcrInit /\ PreprocessIdle /\ ParserIdle /\ ListingInit /\ BatchInit /\ IncrementalInit
        /\ QuestionSpanIdle

ListingSpecNext ==
    /\ ListingNext
    /\ UNCHANGED storeVars /\ UNCHANGED ocrVars /\ UNCHANGED ppVars /\ UNCHANGED fqVars
    /\ UNCHANGED bpVars /\ UNCHANGED incVars /\ UNCHANGED pqVars

ListingSpec == ListingSpecInit /\ [][ListingSpecNext]_vars

Timestamp(file) == extract_timestamp_from_filename(file)

Ascending(files) ==
    \A i, j \in 1..Len(files) : i < j => ~ IntLess(Timestamp(files[j]), Timestamp(files[i]))

Range(f) == { f[i] : i \in DOMAIN f }

Before(files, a, b) ==
    \E i, j \in 1..Len(files) : i < j /\ files[i] = a /\ files[j] = b

\* C14: the list is ascending by the timestamp of the filename, files without
\* a timestamp first, and it is the same list whatever the order in which
\* the OS listed the folder.
C14_OrderIndependentOfListing ==
    ls_pc = "done" =>
        /\ Ascending(file_listbox)
        /\ \A other \in Listings(Range(listdir)) :
               sorted_filenames(other) = file_listbox

\* C14 as amended: the list holds the image files of the folder, ascending by
\* timestamp; two files with different timestamps come in the same order
\* whatever the OS listing, two files with the same timestamp come in the
\* order of the OS listing.
C14_OrderUpToTies ==
    ls_pc = "done" =>
        /\ Range(file_listbox) = { f \in Range(listdir) : is_image_file(f) }
        /\ Ascending(file_listbox)
        /\ \A other \in Listings(Range(listdir)) :
               \A a, b \in Range(file_listbox) :
                   Timestamp(a) # Timestamp(b) =>
                       (Before(file_listbox, a, b) <=> Before(sorted_filenames(other), a, b))
        /\ \A a, b \in Range(file_listbox) :
               Timestamp(a) = Timestamp(b) /\ Before(listdir, a, b) =>
                   Before(file_listbox, a, b)

\* the OS lists the later of two timestamped files first
C14_Witness ==
    /\ ls_pc = "done"
    /\ listdir = << <<"p", "a", "g", "e", "_", "2", "0", "2", "4", "0", "1", "0", "1", "-", "0", "9", "0", "0", "0", "0", ".", "p", "n", "g">>,
                    <<"p", "a", "g", "e", "_", "2", "0", "2", "4", "0", "1", "0", "1", "-", "0", "8", "0", "0", "0", "0", ".", "p", "n", "g">> >>
    /\ file_listbox = << <<"p", "a", "g", "e", "_", "2", "0", "2", "4", "0", "1", "0", "1", "-", "0", "8", "0", "0", "0", "0", ".", "p", "n", "g">>,
                         <<"p", "a", "g", "e", "_", "2", "0", "2", "4", "0", "1", "0", "1", "-", "0", "9", "0", "0", "0", "0", ".", "p", "n", "g">> >>

-----------------------------------------------------------------------------
(* Batch processing: start_processing, ocr_worker, process_files,          *)
(* check_progress and stop_processing_thread of BatchProcessor.            *)
(*                                                                         *)
(* A float is the set of the positions of the 1 bits of its value in       *)
(* units of 2^-55; sums are rounded to 53 significant bits, to nearest     *)
(* and to even on a tie, as binary64 addition does.                        *)

BitPositions == 0..59

\* the carry into position i of the sum of a and b
Carry(a, b, i) ==
    \E j \in 0..(i - 1) :
        /\ j \in a /\ j \in b
        /\ \A k \in (j + 1)..(i - 1) : k \in a \/ k \in b

ExactSum(a, b) ==
    { i \in BitPositions : ((i \in a) # (i \in b)) # Carry(a, b, i) }

TopBit(a) == CHOOSE i \in a : \A j \in a : j <= i

\* rounding to 53 significant bits
Round53(a) ==
    IF a = {} \/ TopBit(a) < 53 THEN a
    ELSE LET lsb == TopBit(a) - 52
             kept == { i \in a : i >= lsb }
             up == /\ (lsb - 1) \in a
                   /\ (lsb \in a \/ \E i \in a : i < lsb - 1)
         IN  IF up THEN ExactSum(kept, {lsb}) ELSE kept

FloatAdd(a, b) == Round53(ExactSum(a, b))

FloatLess(a, b) ==
    \E i \in b \ a : \A j \in BitPositions : j > i => (j \in a <=> j \in b)

\* 0.2 is 0x1.999999999999ap-3, that is 0x1999999999999a units
sleep_interval ==
    {1, 3} \cup { 4 * n : n \in 1..12 } \cup { 4 * n + 3 : n \in 1..12 } \cup {52}

\* 2.0 is 2^56 units
max_ocr_wait == {56}

Dead == {"done", "stopped", "crashed"}

NewThread ==
    [pc |-> "loop", file_path |-> "", ocr_text |-> "", await_time |-> {},
     polls |-> 0, retries |-> 0, response |-> "None", prompt |-> "",
     processed_count |-> 0]

\* never: the thread object is taken to be dead
never_alive(t) == FALSE

\* self.processing_thread.is_alive(): process_files has not returned
is_alive(t) == threads[t].pc \notin Dead

\* a thread that has ended or has only its return left: its local variables
\* are gone or are read no more
Ended(how) == [NewThread EXCEPT !.pc = how]

\* ("complete", f"Processing complete. Processed {processed_count} files
\* successfully.")
complete_event(processed_count) == <<"complete", processed_count>>

SetThread(t, rec) == threads' = [threads EXCEPT ![t] = rec]

Selections == { <<"a.png">>, <<"a.png", "b.png">>, <<"b.png", "a.png">> }

Configs ==
    { c \in [use_ocr : BOOLEAN, has_vision : BOOLEAN, max_retries : 0..MaxRetriesSetting] :
        c.use_ocr => ~ c.has_vision }

\* lines 1024-1101, the Start button
start_processing(selected_files, cfg) ==
    /\ process_button
    /\ run_config' = cfg
    /\ ocr_results' = [f \in BatchFiles |-> ""]
    /\ processing_queue' = selected_files
    /\ results_queue' = <<>>
    /\ ocr_tasks' = IF cfg.use_ocr
                    THEN ocr_tasks \cup { [run |-> Len(threads) + 1, file |-> selected_files[i]] :
                                            i \in 1..Len(selected_files) }
                    ELSE ocr_tasks
    /\ stop_processing' = FALSE
    /\ threads' = Append(threads, NewThread)
    /\ process_button' = FALSE
    /\ stop_button' = TRUE
    /\ checking' = TRUE
    /\ enqueued' = selected_files
    /\ taken' = <<>>
    /\ ocr_done' = <<>>
    /\ requests' = [f \in BatchFiles |-> 0]
    /\ outcome' = [f \in BatchFiles |-> "none"]

\* lines 1103-1119, one task of an OCR pool from start to end
ocr_worker(task, result) ==
    /\ task \in ocr_tasks
    /\ ocr_tasks' = ocr_tasks \ {task}
    /\ ocr_results' = IF result = "raise" THEN ocr_results
                      ELSE [ocr_results EXCEPT ![task.file] = result]
    /\ ocr_done' = IF task.run = Len(threads) THEN Append(ocr_done, task.file) ELSE ocr_done
    /\ UNCHANGED <<processing_queue, results_queue, stop_processing, process_button,
                   stop_button, checking, threads, run_config, enqueued, taken,
                   requests, outcome>>

\* lines 2274-2282, the Stop button; shutdown(wait=False) lets the tasks
\* already submitted run
stop_processing_thread ==
    /\ stop_button
    /\ stop_processing' = TRUE
    /\ stop_button' = FALSE
    /\ UNCHANGED <<processing_queue, results_queue, ocr_results, ocr_tasks, process_button,
                   checking, threads, run_config, enqueued, taken, ocr_done,
                   requests, outcome>>

\* lines 2226-2272
check_progress ==
    /\ checking
    /\ IF results_queue # <<>>
       THEN /\ results_queue' = Tail(results_queue)
            /\ process_button' = TRUE
            /\ stop_button' = FALSE
            /\ checking' = FALSE
       ELSE /\ results_queue' = results_queue
            /\ IF is_alive(Len(threads))
               THEN UNCHANGED <<process_button, stop_button, checking>>
               ELSE /\ process_button' = TRUE
                    /\ stop_button' = FALSE
                    /\ checking' = FALSE
    /\ UNCHANGED <<processing_queue, ocr_results, ocr_tasks, stop_processing, threads,
                   run_config, enqueued, taken, ocr_done, requests, outcome>>

\* what a step of the processing thread leaves alone
ThreadFrame ==
    UNCHANGED <<results_queue, ocr_results, ocr_tasks, stop_processing, process_button,
                stop_button, checking, run_config, enqueued, ocr_done>>

\* line 1979, the test of the while loop
loop_test(t) ==
    /\ threads[t].pc = "loop"
    /\ SetThread(t, [threads[t] EXCEPT
           !.pc = IF processing_queue # <<>> /\ ~ stop_processing THEN "take" ELSE "finish"])
    /\ ThreadFrame
    /\ UNCHANGED <<processing_queue, taken, requests, outcome>>

\* variant: the worker takes the file put on the queue last
take_last(q) == [file |-> q[Len(q)], rest |-> SubSeq(q, 1, Len(q) - 1)]

\* queue.Queue.get_nowait(): the file put on the queue first
get_nowait(q) == [file |-> Head(q), rest |-> Tail(q)]

\* lines 1981-2026: the file is taken and its prompt prepared, up to the wait
\* for the OCR text; encoding the image for a vision model may fail
take(t, encode_fails) ==
    /\ threads[t].pc = "take"
    /\ ThreadFrame
    /\ IF processing_queue = <<>>
       THEN \* queue.Empty; the handler of line 2071 needs file_path
            /\ SetThread(t, IF threads[t].file_path = "" THEN Ended("crashed")
                             ELSE [threads[t] EXCEPT !.pc = "loop",
                                                     !.processed_count = @ + 1])
            /\ UNCHANGED <<processing_queue, taken, requests, outcome>>
       ELSE LET got == get_nowait(processing_queue)
                file == got.file
                mine == [threads[t] EXCEPT !.file_path = file, !.retries = 0,
                                           !.response = "None", !.polls = 0,
                                           !.await_time = {},
                                           !.ocr_text = IF run_config.use_ocr
                                                        THEN ocr_results[file] ELSE ""]
            IN  /\ processing_queue' = got.rest
                /\ taken' = Append(taken, file)
                /\ UNCHANGED requests
                /\ IF run_config.use_ocr
                   THEN /\ SetThread(t, [mine EXCEPT !.pc = "ocr_wait"])
                        /\ UNCHANGED outcome
                   ELSE IF run_config.has_vision /\ encode_fails
                   THEN /\ SetThread(t, [mine EXCEPT !.pc = "loop",
                                                     !.processed_count = @ + 1])
                        /\ outcome' = [outcome EXCEPT ![file] = "vision:failed"]
                   ELSE /\ SetThread(t, [mine EXCEPT
                               !.pc = "attempt",
                               !.prompt = IF run_config.has_vision THEN "vision"
                                                                   ELSE "filename"])
                        /\ UNCHANGED outcome

\* lines 1991-2010: one turn of the wait for the OCR text, or its end
ocr_poll(t) ==
    /\ threads[t].pc = "ocr_wait"
    /\ ThreadFrame
    /\ UNCHANGED <<processing_queue, taken, requests, outcome>>
    /\ IF /\ threads[t].ocr_text = ""
          /\ FloatLess(threads[t].await_time, max_ocr_wait)
          /\ ~ stop_processing
       THEN SetThread(t, [threads[t] EXCEPT
                !.await_time = FloatAdd(threads[t].await_time, sleep_interval),
                !.polls = threads[t].polls + 1,
                !.ocr_text = ocr_results[threads[t].file_path]])
       ELSE SetThread(t, [threads[t] EXCEPT
                !.pc = "attempt",
                !.prompt = IF threads[t].ocr_text # "" THEN "ocr" ELSE "no_ocr"])

\* lines 2053-2066: "processed_count += 1" when there is a response, line
\* 2056, and when there is none, line 2065
next_count(processed_count, response) == processed_count + 1

\* line 2033, the test of the retry loop, with the report of lines 2053-2069
\* when the loop ends
attempt(t) ==
    /\ threads[t].pc = "attempt"
    /\ ThreadFrame
    /\ UNCHANGED <<processing_queue, taken>>
    /\ LET file == threads[t].file_path
       IN  IF threads[t].response = "None" /\ threads[t].retries <= run_config.max_retries
           THEN /\ requests[file] < run_config.max_retries + 1 + MaxExtraRequests
                /\ UNCHANGED outcome
                /\ IF threads[t].retries > 0
                   THEN /\ SetThread(t, [threads[t] EXCEPT !.pc = "retry_wait"])
                        /\ UNCHANGED requests
                   ELSE /\ SetThread(t, [threads[t] EXCEPT !.pc = "request"])
                        /\ requests' = [requests EXCEPT ![file] = @ + 1]
           ELSE /\ SetThread(t, [threads[t] EXCEPT
                       !.pc = "loop",
                       !.processed_count = next_count(@, threads[t].response)])
                /\ UNCHANGED requests
                /\ outcome' = [outcome EXCEPT ![file] =
                       IF threads[t].response = "text" THEN "ok" ELSE "failed"]

\* lines 2034-2040: time.sleep(retry_delay) ends and the request is sent
retry_sleep(t) ==
    /\ threads[t].pc = "retry_wait"
    /\ ThreadFrame
    /\ SetThread(t, [threads[t] EXCEPT !.pc = "request"])
    /\ requests' = [requests EXCEPT ![threads[t].file_path] = @ + 1]
    /\ UNCHANGED <<processing_queue, taken, outcome>>

\* what get_lmstudio_response does: it raises, returns None for a body
\* without choices, or returns the content, which may be empty
Responses == {"raise", "None", "", "text"}

\* line 2051: only an exception counts as a failed try
counts_as_retry(r) == r = "raise"

\* lines 2039-2051: the request returns
lm_response(t, r) ==
    /\ threads[t].pc = "request"
    /\ ThreadFrame
    /\ SetThread(t, [threads[t] EXCEPT
           !.pc = "attempt",
           !.retries = IF counts_as_retry(r) THEN @ + 1 ELSE @,
           !.response = IF r = "raise" THEN "None" ELSE r])
    /\ UNCHANGED <<processing_queue, taken, requests, outcome>>

\* line 2078
finish_test(t) ==
    /\ threads[t].pc = "finish"
    /\ ThreadFrame
    /\ SetThread(t, IF ~ stop_processing THEN [threads[t] EXCEPT !.pc = "shutdown"]
                                          ELSE Ended("stopped"))
    /\ UNCHANGED <<processing_queue, taken, requests, outcome>>

\* lines 2081-2083: shutdown(wait=True) returns when the tasks of the pool
\* have finished and "complete" is put on the queue; the thread has only its
\* return left
finalize(t) ==
    /\ threads[t].pc = "shutdown"
    /\ ~ \E task \in ocr_tasks : task.run = Len(threads)
    /\ results_queue' = Append(results_queue,
                               complete_event(threads[t].processed_count))
    /\ SetThread(t, Ended("return"))
    /\ UNCHANGED <<processing_queue, ocr_results, ocr_tasks, stop_processing,
                   process_button, stop_button, checking, run_config, enqueued, taken,
                   ocr_done, requests, outcome>>

\* process_files returns and the thread ends
thread_exit(t) ==
    /\ threads[t].pc = "return"
    /\ SetThread(t, Ended("done"))
    /\ ThreadFrame
    /\ UNCHANGED <<processing_queue, taken, requests, outcome>>

process_files(t) ==
    \/ loop_test(t)
    \/ \E encode_fails \in BOOLEAN : take(t, encode_fails)
    \/ ocr_poll(t)
    \/ attempt(t)
    \/ retry_sleep(t)
    \/ \E r \in Responses : lm_response(t, r)
    \/ finish_test(t)
    \/ finalize(t)
    \/ thread_exit(t)

\* what perform_ocr returns in place of a text: the message of lines
\* 1336-1342 when no attempt found text, and that of its except clause
Diagnostics == {"No text detected", "OCR Error"}

\* the outcomes of an OCR task: perform_ocr returns the formatted text "t" or
\* a diagnostic, or ocr_worker raises before it has stored anything
OcrTexts == {"t", "raise"} \cup Diagnostics

\* the steps of the batch processor when the user picks among the given
\* selections and configurations and starts at most the given number of runs,
\* and the OCR tasks end in one of the given outcomes
BatchNextOver(selections, configs, runs, texts) ==
    \/ \E files \in selections, cfg \in configs :
          Len(threads) < runs /\ start_processing(files, cfg)
    \/ stop_processing_thread
    \/ check_progress
    \/ \E task \in ocr_tasks, result \in texts : ocr_worker(task, result)
    \/ \E t \in 1..Len(threads) : process_files(t)

BatchSpecInit ==
    StoreInit /\ OcrInit /\ PreprocessIdle /\ ParserIdle /\ ListingIdle /\ BatchInit /\ IncrementalInit
        /\ QuestionSpanIdle

BatchSpecNext ==
    /\ BatchNextOver(Selections, Configs, 1, OcrTexts \ {"OCR Error"})
    /\ UNCHANGED storeVars /\ UNCHANGED ocrVars /\ UNCHANGED ppVars /\ UNCHANGED fqVars
    /\ UNCHANGED lsVars /\ UNCHANGED incVars /\ UNCHANGED pqVars

BatchSpec == BatchSpecInit /\ [][BatchSpecNext]_vars

\* C15: the worker takes the files in the order start_processing put them on
\* the queue -- what it has taken, followed by what still waits, is the
\* submission order -- and the waits and requests of the worker are for the
\* file taken last, whatever order the OCR tasks complete in.
C15_FifoOrder ==
    /\ taken \o processing_queue = enqueued
    /\ \A t \in 1..Len(threads) :
         threads[t].pc \in {"ocr_wait", "attempt", "retry_wait", "request"}
           => taken # <<>> /\ threads[t].file_path = taken[Len(taken)]
    /\ \A f \in BatchFiles : requests[f] > 0 => f \in Range(taken)

\* both files were taken in submission order although the OCR of the second
\* file finished first
C15_Witness ==
    /\ enqueued = <<"a.png", "b.png">>
    /\ ocr_done = <<"b.png", "a.png">>
    /\ taken = <<"a.png", "b.png">>
    /\ requests["a.png"] > 0 /\ requests["b.png"] > 0

\* C16: whatever the endpoint does, at most max_retries + 1 requests are
\* issued for a file.
C16_AtMostRetriesPlusOne ==
    \A f \in BatchFiles : requests[f] <= run_config.max_retries + 1

\* C17: once the stop flag is set, the worker takes no further file and
\* starts no further retry wait, no further OCR task is submitted and no
\* "complete" event is emitted.
C17_StopHaltsDraining ==
    [][stop_processing /\ stop_processing'
         => /\ taken' = taken
            /\ \A t \in 1..Len(threads) :
                 threads'[t].pc = "retry_wait" => threads[t].pc = "retry_wait"
            /\ ocr_tasks' \subseteq ocr_tasks
            /\ \A e \in Range(results_queue') :
                 results_queue' # Append(results_queue, e)]_vars

\* C19: the wait for an OCR result is at most 2.0 s at 0.2 s a poll, that is
\* at most ten polls, after which the request goes out with the prompt for
\* a file without OCR text.
C19_BoundedOcrWait ==
    \A t \in 1..Len(threads) :
        /\ threads[t].polls * 2 <= 20
        /\ threads[t].pc \in {"attempt", "retry_wait", "request"} /\ run_config.use_ocr
             /\ threads[t].ocr_text = ""
             => threads[t].prompt = "no_ocr"

\* the runs of a session with several runs take one file each
RerunSelections == { <<"a.png">> }

RerunSpecNext ==
    /\ BatchNextOver(RerunSelections, Configs, MaxRuns, OcrTexts)
    /\ UNCHANGED storeVars /\ UNCHANGED ocrVars /\ UNCHANGED ppVars /\ UNCHANGED fqVars
    /\ UNCHANGED lsVars /\ UNCHANGED incVars /\ UNCHANGED pqVars

RerunSpec == BatchSpecInit /\ [][RerunSpecNext]_vars

\* C18 as stated: at most one request is in flight and at most one processing
\* thread is alive.
C18_OneThreadAlive ==
    /\ Cardinality({ t \in 1..Len(threads) : threads[t].pc = "request" }) <= 1
    /\ Cardinality({ t \in 1..Len(threads) : threads[t].pc \notin Dead }) <= 1

\* C18, amended: at most one request is in flight and at most one processing
\* thread is still at work; a thread of an earlier run has ended or has
\* nothing left but to return after its "complete" event.
C18_OneThreadAtWork ==
    /\ Cardinality({ t \in 1..Len(threads) : threads[t].pc = "request" }) <= 1
    /\ Cardinality({ t \in 1..Len(threads) : threads[t].pc \notin Dead \cup {"return"} }) <= 1
    /\ \A t \in 1..(Len(threads) - 1) : threads[t].pc \in Dead \cup {"return"}

\* a second run has its request in flight after the first run was stopped
C18_Witness ==
    /\ Len(threads) = 2
    /\ threads[1].pc = "stopped"
    /\ threads[2].pc = "request"

-----------------------------------------------------------------------------
(* Incremental re-runs: OCRApp.start_ocr_processing of LMStudio_OCR.py *)

\* os.path.join(input_dir, image_file)
full_image_path(image_file) == input_dir \o <<"/">> \o image_file

\* variant: no file counts as processed
never_processed(d, filename) == FALSE

\* is_file_processed on a database value: the file has a source_files row
\* joined to a question
file_processed_in(d, filename) ==
    \E sf \in d.source_files, q \in d.questions :
        sf.question_id = q.id /\ sf.filename_hash = compute_filename_hash(filename)

\* what the OCR and the parse of one image come to: no text extracted, only
\* blank lines, or a question that store_question stores or fails to store
ImageOutcomes ==
    { [raw |-> "none", text |-> <<>>, failAt |-> 0],
      [raw |-> "blank", text |-> <<>>, failAt |-> 0] }
    \cup [raw : {"text"}, text : TwoTexts, failAt : {0, 1}]

\* one turn of the loop of lines 907-924 on the run so far
process_image(st, image_file, o) ==
    IF file_processed_in(st.db, full_image_path(image_file))
    THEN [st EXCEPT !.skipped = @ \cup {image_file}]
    ELSE IF o.raw # "text"
    THEN [st EXCEPT !.processed = @ \cup {image_file}]
    ELSE LET question_text == Strip(o.text)
             r == store_question_txn(st.db, question_text, <<"p">>, image_file, o.failAt)
         IN  [db |-> r.db,
              skipped |-> st.skipped,
              processed |-> st.processed \cup {image_file},
              stored |-> IF r.ret
                         THEN [st.stored EXCEPT ![image_file] =
                                  upsert_id(st.db, compute_question_hash(question_text))]
                         ELSE st.stored]

RECURSIVE process_images(_, _, _)
process_images(st, outcomes, n) ==
    IF n = 0 THEN st
    ELSE process_image(process_images(st, outcomes, n - 1),
                       folder_images[n], outcomes[folder_images[n]])

\* lines 873-951, one run over the folder
start_ocr_processing(outcomes) ==
    LET st == process_images([db |-> DB, skipped |-> {}, processed |-> {},
                              stored |-> stored_as],
                             outcomes, Len(folder_images))
    IN  /\ st.db.seq <= MaxId
        /\ SetDB(st.db)
        /\ processed_files' = st.processed
        /\ skipped_files' = st.skipped
        /\ stored_as' = st.stored
        /\ lastCall' = [NoCall EXCEPT !.op = "start_ocr_processing", !.ret = TRUE]

\* lines 846-871: the question chosen in the list is deleted
delete_selected_question(question_id, failed) ==
    /\ delete_question(question_id, failed)
    /\ stored_as' = [f \in FolderFilesOcr |->
                        IF ~ failed /\ stored_as[f] = question_id THEN 0 ELSE stored_as[f]]
    /\ UNCHANGED <<processed_files, skipped_files>>

\* a file of the folder is marked unprocessed
mark_unprocessed(image_file) ==
    /\ mark_file_unprocessed(full_image_path(image_file))
    /\ stored_as' = [stored_as EXCEPT ![image_file] = 0]
    /\ UNCHANGED <<processed_files, skipped_files>>

IncrementalNext ==
    \/ \E outcomes \in [FolderFilesOcr -> ImageOutcomes] : start_ocr_processing(outcomes)
    \/ \E id \in Ids, failed \in BOOLEAN : delete_selected_question(id, failed)
    \/ \E f \in FolderFilesOcr : mark_unprocessed(f)

IncrementalSpecInit ==
    StoreInit /\ OcrInit /\ PreprocessIdle /\ ParserIdle /\ ListingIdle /\ BatchInit
        /\ IncrementalInit /\ QuestionSpanIdle

IncrementalSpecNext ==
    /\ IncrementalNext
    /\ UNCHANGED ocrVars /\ UNCHANGED ppVars /\ UNCHANGED fqVars /\ UNCHANGED lsVars
    /\ UNCHANGED bpVars /\ UNCHANGED pqVars

IncrementalSpec == IncrementalSpecInit /\ [][IncrementalSpecNext]_vars

-----------------------------------------------------------------------------
(* perform_ocr: the alternative PSM retry and failures of single variants   *)

\* the text-producing attempts of the loop over the variants
VariantScored == { r \in scored : r.settings.kind = "variant" }

\* the variant of the best score: the highest confidence, the earliest of these
BestVariants ==
    { r \in VariantScored :
        \A s \in VariantScored :
            /\ ~RatGt(s.conf, r.conf)
            /\ RatEq(s.conf, r.conf) => r.order <= s.order }

\* C21: every attempt of the alternative PSM retry is made on the variant of
\* the best score so far, and no attempt of the retry uses the PSM of the
\* first pass.
C21_AltPsmOnBestVariant ==
    /\ alt_preproc # "" => \A r \in BestVariants : alt_preproc = r.settings.name
    /\ \A r \in scored : r.settings.kind = "alt" => r.settings.psm # ocr_in.psm

\* C22: when building or running one variant raises, only the attempt of that
\* variant fails: the call does not end in the "OCR Error" return, and every
\* other variant has been attempted when it returns.
C22_OnlyThatVariantFails ==
    (pc = "done" /\ ocr_return # "")
        => /\ ocr_return # "OCR Error"
           /\ \A i \in 1..Len(Variants) :
                i # ocr_in.build_raises => Variants[i] \in attempted

-----------------------------------------------------------------------------
(* OCRApp.parse_ocr_text: locating the question among the lines            *)

(* A line is the sequence of its words. The word "Question:" stands for    *)
(* what question_prefix_pattern accepts at the start of a line ("Question:",*)
(* "Question 3:"), "Which" for an opener of implicit_question_pattern, and  *)
(* "Option A:" for what the re.sub of line 619 removes.                     *)
MaxLines == 3

\* question_prefix_pattern.match(line)
question_prefix_pattern(line) == line # <<>> /\ line[1] = "Question:"

\* implicit_question_pattern.match(line)
implicit_question_pattern(line) == line # <<>> /\ line[1] = "Which"

\* re.sub(r"^Option\s+A:\s*", "", next_line)
without_option_a(next_line) ==
    IF next_line # <<>> /\ next_line[1] = "Option A:" THEN Tail(next_line)
    ELSE next_line

\* the smallest member of a non-empty set of positions, 0 of the empty set
FirstOf(positions) ==
    IF positions = {} THEN 0
    ELSE CHOOSE i \in positions : \A j \in positions : i <= j

PrefixLines(lines) ==
    { i \in 1..Len(lines) : question_prefix_pattern(lines[i]) }

ImplicitLines(lines) ==
    { i \in 1..Len(lines) : implicit_question_pattern(lines[i]) }

\* a search that looks for a prefixed line among all lines first
prefix_lines_first(lines) ==
    IF PrefixLines(lines) # {} THEN FirstOf(PrefixLines(lines))
    ELSE FirstOf(ImplicitLines(lines))

\* "for i, line in enumerate(lines)": the line at which the loop breaks, the
\* first one for which the if or the elif holds; 0 when the loop runs out
break_line(lines) == FirstOf(PrefixLines(lines) \cup ImplicitLines(lines))

\* the loop body at the line of the break; positions of the code are 0-based
located_at(lines, k) ==
    IF question_prefix_pattern(lines[k])
    THEN IF Tail(lines[k]) # <<>>
         THEN [question_text |-> Tail(lines[k]), question_index |-> k - 1,
               options_start_index |-> k, rule |-> "prefix"]
         ELSE IF k < Len(lines)
              THEN [question_text |-> without_option_a(lines[k + 1]),
                    question_index |-> k - 1,
                    options_start_index |-> k + 1, rule |-> "prefix"]
              ELSE [NotLocated EXCEPT !.question_index = k - 1,
                                      !.rule = "prefix"]
    ELSE [question_text |-> lines[k], question_index |-> k - 1,
          options_start_index |-> k, rule |-> "implicit"]

\* lines 611-633: the loop, then "if not question_text and lines"
locate_question(lines) ==
    LET k == break_line(lines)
        found == IF k = 0 THEN NotLocated ELSE located_at(lines, k)
    IN  IF found.question_text = <<>>
        THEN [found EXCEPT !.question_text = lines[1],
                           !.options_start_index = 1, !.rule = "first"]
        ELSE found

LineChoices ==
    { <<"Question:", "w">>, <<"Question:">>, <<"Which", "w">>, <<"w">>,
      <<"Option A:", "w">>, <<"Option A:">> }

LineLists == UNION { [1..n -> LineChoices] : n \in 1..MaxLines }

QuestionSpanInit ==
    /\ raw_lines \in LineLists
    /\ parsed = NotLocated
    /\ pq_pc = "ready"

parse_ocr_text ==
    /\ pq_pc = "ready"
    /\ parsed' = locate_question(raw_lines)
    /\ pq_pc' = "done"
    /\ UNCHANGED raw_lines

QuestionSpanSpecInit ==
    StoreInit /\ OcrInit /\ PreprocessIdle /\ ParserIdle /\ ListingIdle /\ BatchInit
        /\ IncrementalInit /\ QuestionSpanInit

QuestionSpanSpecNext ==
    /\ parse_ocr_text
    /\ UNCHANGED storeVars /\ UNCHANGED ocrVars /\ UNCHANGED ppVars
    /\ UNCHANGED fqVars /\ UNCHANGED lsVars /\ UNCHANGED bpVars /\ UNCHANGED incVars

QuestionSpanSpec == QuestionSpanSpecInit /\ [][QuestionSpanSpecNext]_vars

\* the prefixed line yields no question text: it is the last line, or the
\* line after it holds nothing but "Option A:"
NoTextAt(k) ==
    /\ question_prefix_pattern(raw_lines[k])
    /\ Tail(raw_lines[k]) = <<>>
    /\ k < Len(raw_lines) => without_option_a(raw_lines[k + 1]) = <<>>

\* C23 as stated: a line with the explicit prefix anchors the question
\* whenever there is one, even after a line with an interrogative opener;
\* the opener rule is used only when no line has the prefix, and the first
\* line only when no line matches either.
C23_PrefixBeforeOpener ==
    pq_pc = "done"
        => /\ PrefixLines(raw_lines) # {}
                => parsed.question_index = FirstOf(PrefixLines(raw_lines)) - 1
           /\ parsed.rule = "implicit" => PrefixLines(raw_lines) = {}
           /\ parsed.rule = "first"
                => PrefixLines(raw_lines) \cup ImplicitLines(raw_lines) = {}

\* C23, amended: the lines are scanned once, in order, and the first line that
\* has the explicit prefix or an interrogative opener anchors the question,
\* the prefix counting first on a line that has both; the first line is used
\* when no line matches either, and when the anchoring line has the prefix
\* but yields no question text.
C23_FirstMatchingLineWins ==
    pq_pc = "done"
        => LET M == PrefixLines(raw_lines) \cup ImplicitLines(raw_lines)
               k == FirstOf(M)
           IN  /\ M # {} => parsed.question_index = k - 1
               /\ parsed.rule = "implicit"
                    => /\ k \in ImplicitLines(raw_lines) \ PrefixLines(raw_lines)
                       /\ parsed.question_text = raw_lines[k]
               /\ parsed.rule = "prefix" => k \in PrefixLines(raw_lines)
               /\ parsed.rule = "first"
                    <=> (M = {} \/ (k # 0 /\ NoTextAt(k)))
               /\ parsed.rule = "first" => parsed.question_text = raw_lines[1]

\* an opener line precedes a prefixed line, and the opener line is taken
C23_Witness ==
    /\ pq_pc = "done"
    /\ raw_lines = << <<"Which", "w">>, <<"Question:", "w">> >>
    /\ parsed.rule = "implicit"
    /\ parsed.question_index = 0

-----------------------------------------------------------------------------
(* format_question_options: letters found by their marker and the bullets  *)

\* the lines in which format_question_options looks for the options of a text
OptionLines(text) ==
    Then(remove_circles(apply_replacements(text, 1)), LAMBDA clean_text :
        stripped_lines(question_and_remaining(clean_text).remaining_text))

\* the text that the patterns "<Letter>.", "Option <Letter>:" and
\* "Options: <Letter>:" give to the n-th letter, empty when none matches
MarkedText(lines, n) == scan_option(lines, OptionKeys[n], 1, {}).text

\* C24: a letter that an explicit marker has filled keeps that text: neither
\* a bullet line nor a line left over replaces it.
C24_MarkedLettersKept ==
    fq_pc = "done" =>
        Then(OptionLines(fq_in.text), LAMBDA lines :
            \A n \in 1..4 :
                Then(MarkedText(lines, n), LAMBDA marked :
                    marked # <<>> =>
                        \E textblob_raises \in BOOLEAN :
                            fq_out.options[n]
                                = clean_option_text(marked, textblob_raises)))

-----------------------------------------------------------------------------
(* The questions without LLM results                                        *)

\* C25: get_questions_missing_llm_results returns exactly the questions for
\* which has_llm_results is False, also after the results were cleared to
\* empty strings.
C25_MissingIffNoResults ==
    \A q \in questions :
        q \in get_questions_missing_llm_results <=> ~has_llm_results(q.id)

-----------------------------------------------------------------------------
(* process_files: the count of the "complete" event                         *)

\* the files of the run for which a response of the LLM was obtained
Succeeded == { f \in BatchFiles : outcome[f] = "ok" }

\* C26: the count that the "complete" event of a run reports is the number
\* of files for which a response was obtained; a file whose request failed
\* after all retries, or whose processing raised, is not counted.
C26_CompleteCountsSuccesses ==
    \A i \in 1..Len(results_queue) :
        results_queue[i][2] = Cardinality(Succeeded)

-----------------------------------------------------------------------------
(* process_files: the prompt of a file whose OCR found no text or failed    *)

\* C27: when the OCR of a file has returned its "No text detected" message
\* or an "OCR Error" message, the worker sends the prompt for a file without
\* OCR text; such a message is never formatted and sent as the OCR text.
C27_DiagnosticGetsDegradedPrompt ==
    \A t \in 1..Len(threads) :
        /\ threads[t].pc \in {"attempt", "retry_wait", "request"}
        /\ run_config.use_ocr
        /\ threads[t].ocr_text \in Diagnostics
        => threads[t].prompt = "no_ocr"

-----------------------------------------------------------------------------
(* The store: references to questions                                       *)

\* C28: in every state of the store, every option record and every
\* source-file record refers to a question record that exists.
C28_ReferentialIntegrity ==
    /\ \A o \in options : \E q \in questions : q.id = o.question_id
    /\ \A f \in source_files : \E q \in questions : q.id = f.question_id

-----------------------------------------------------------------------------
(* store_question on a question that is known                               *)

MaxClock == 2

\* a second goes by
tick ==
    /\ clock < MaxClock
    /\ clock' = clock + 1
    /\ UNCHANGED <<questions, options, source_files, seq, lastCall>>

RestoreFiles == { <<"x">>, <<"y">> }

\* two spellings of one question, parsed with different options, and another
\* question
RestoreParses ==
    { [text |-> <<"a", " ", "B">>, opts |-> <<"p">>],
      [text |-> <<" ", "A", "\t", " ", "b">>, opts |-> <<"q", "p">>],
      [text |-> <<"b">>, opts |-> <<"p">>] }

RestoreNext ==
    \/ \E p \in RestoreParses, f \in RestoreFiles :
         store_question(p.text, p.opts, f, 0)
    \/ \E id \in Ids : update_llm_results(id, Good, Good, Good)
    \/ tick

RestoreSpecNext == RestoreNext /\ UNCHANGED ocrVars /\ OthersUnchanged

RestoreSpec == Init /\ [][RestoreSpecNext]_vars

\* the records of the questions other than the given one
OthersIn(records, question_id) == { r \in records : r.question_id # question_id }

\* C29: a store_question whose text has the hash of a stored question leaves
\* that record its id, its text, its first_seen date and its LLM fields, and
\* changes nothing of any other question: only last_seen of the record and
\* the options and source files of that question may differ afterwards.
C29_RestoreChangesOnlyItsOwn ==
    [][\A old \in ExistingWithHash(DB, compute_question_hash(lastCall'.text)) :
         lastCall'.op = "store_question" /\ lastCall'.ret
         => /\ \E q \in questions' :
                 /\ q = [old EXCEPT !.last_seen_date = q.last_seen_date]
                 /\ questions' = (questions \ {old}) \cup {q}
            /\ OthersIn(options', old.id) = OthersIn(options, old.id)
            /\ OthersIn(source_files', old.id) = OthersIn(source_files, old.id)]_vars

\* a question with LLM results was stored again, later and with another
\* spelling of its text, while another question has an option and a file
C29_Witness ==
    /\ lastCall.op = "store_question"
    /\ \E q \in questions :
         /\ q.id = lastCall.id
         /\ q.question_text # lastCall.text
         /\ q.first_seen_date < q.last_seen_date
         /\ q.llm_answer = Good
         /\ q.references = NoReferences
         /\ OthersIn(options, q.id) # {}
         /\ OthersIn(source_files, q.id) # {}

-----------------------------------------------------------------------------
(* OCR tasks of a run that was stopped                                      *)

\* C30: after a run was stopped and a new run started, an OCR task of the
\* stopped run never writes into the state of the new run: when such a task
\* ends, ocr_results is as it was.
C30_StoppedRunWritesNothing ==
    [][\A task \in ocr_tasks \ ocr_tasks' :
         task.run # Len(threads) => ocr_results' = ocr_results]_vars

====
